---- MODULE Spec2Model ----
(***************************************************************************)
(* Model of the three deliberation engines of agent-tower-plugin:          *)
(*   DeliberationMode (scripts/lib/deliberation_mode.py),                   *)
(*   DebateMode       (scripts/lib/debate_mode.py),                         *)
(*   CouncilMode      (scripts/lib/council_mode.py).                        *)
(* Every agent invocation is a suspension point of the asyncio event loop: *)
(* one action models the code that runs from one resumption to the next    *)
(* suspension.  Variables of DeliberationMode carry the prefix dl_, those  *)
(* of DebateMode db_, those of CouncilMode co_.                            *)
(***************************************************************************)
EXTENDS Integers, Sequences, FiniteSets, TLC

\* ------------------------------------------------------------------ bounds
MaxRounds == 4          \* largest max_rounds explored for DeliberationMode
MaxDebateRounds == 3    \* largest max_rounds explored for DebateMode
MaxMembers == 3         \* largest council explored
MaxConcurrent == 2      \* largest max_concurrent explored for CouncilMode
MaxTextLen == 5         \* longest reply text (in lexemes) given to _parse_json
MaxLines == 3           \* most output lines a CLI subprocess prints
MaxAgents == 4          \* largest num_agents given to infer_personas
MaxCalls == 3           \* most calls made to the registry
MaxRuns == 2            \* most run() calls on one engine instance
MaxRunRounds == 2       \* largest max_rounds of an instance that is run again

\* --------------------------------------------------------- shared helpers
\* Python None where a number is expected (agreement levels are percentages).
Null == -1
\* Python None where a text is expected.
None == "None"

\* Agreement levels and confidences are floats in [0,1]; modelled in percent.
consensus_threshold == 85

\* response.py: AgentResponse; metadata is reduced to its "error" entry.
AgentResponse(content, error) == [content |-> content, error |-> error]
is_error(r) == r.error /= None
error_message(r) == r.error
NoResponse == AgentResponse("", None)

\* Error responses the backends return: placeholder content + error kind.
ErrorResponses ==
    { AgentResponse("[Error: Timeout]", "timeout"),
      AgentResponse("[Error: CLI not found]", "cli_not_found") }

IsPlaceholder(content) == \E e \in ErrorResponses : e.content = content

\* A parsed JSON object: tag "None" when _parse_json found none; otherwise the
\* set of keys present and the value stored under "agreement_level".
Dict(keys, level) == [tag |-> "dict", keys |-> keys, agreement_level |-> level]
NoDict == [tag |-> "None", keys |-> {}, agreement_level |-> Null]
Unbound == [tag |-> "unbound", keys |-> {}, agreement_level |-> Null]
\* Python truthiness of an Optional[dict]
Truthy(d) == d.tag = "dict" /\ d.keys /= {}
\* dict.get(key, default) for the key "agreement_level"
Get_agreement_level(d, default) ==
    IF "agreement_level" \in d.keys THEN d.agreement_level ELSE default

\* ------------------------------------------------------- DeliberationMode
\* Reply texts of the reviewer (non-error) and what _parse_json makes of them.
ReviewTexts ==
    { "no json", "{}", "{points}",
      "{agreement_level: 0.10}", "{agreement_level: 0.85}",
      "{agreement_level: 0.90}" }
\* Reply texts of the producer (non-error).
ProducerTexts == { "answer", "{agreed_points}" }

dl_parse_json(content) ==
    CASE content = "{}" -> Dict({}, Null)
      [] content = "{points}" -> Dict({"points"}, Null)
      [] content = "{agreed_points}" -> Dict({"agreed_points"}, Null)
      [] content = "{agreement_level: 0.10}" -> Dict({"agreement_level", "points"}, 10)
      [] content = "{agreement_level: 0.85}" -> Dict({"agreement_level", "points"}, 85)
      [] content = "{agreement_level: 0.90}" -> Dict({"agreement_level"}, 90)
      [] OTHER -> NoDict

ProducerResponses == ErrorResponses \cup { AgentResponse(t, None) : t \in ProducerTexts }
ReviewerResponses == ErrorResponses \cup { AgentResponse(t, None) : t \in ReviewTexts }

VARIABLES
    dl_pc,                \* position of run(): constructed, await_*, returned, raised
    dl_max_rounds,        \* self.max_rounds
    dl_history,           \* self.history
    dl_producer_response, \* local producer_response
    dl_review_response,   \* local review_response
    dl_feedback,          \* local feedback (Unbound until first assigned)
    dl_round_num,         \* loop variable round_num (1 during round 1)
    dl_result,            \* the DeliberationResult returned
    dl_exception,         \* the exception run() raised, None otherwise
    dl_calls              \* log of agent invocations: prompt arguments and response

dl_vars == << dl_pc, dl_max_rounds, dl_history, dl_producer_response,
              dl_review_response, dl_feedback, dl_round_num, dl_result,
              dl_exception, dl_calls >>

DeliberationResult(status, rounds, agreement_level, error) ==
    [status |-> status, rounds |-> rounds,
     agreement_level |-> agreement_level, error |-> error]
NoResult == DeliberationResult(None, 0, Null, None)

\* One invocation: who, in which round, with which texts in the prompt.
Call(agent, round, response, feedback) ==
    [agent |-> agent, round |-> round, response |-> response,
     feedback |-> feedback, returned |-> FALSE, result |-> NoResponse]

Returned(calls, resp) ==
    [calls EXCEPT ![Len(calls)] = [@ EXCEPT !.returned = TRUE, !.result = resp]]

HistoryEntry(round, agent, type, content, parsed) ==
    [round |-> round, agent |-> agent, type |-> type,
     content |-> content, parsed |-> parsed]

\* __init__, lines 111-116
dl_Constructed(max_rounds) ==
    /\ dl_pc = "constructed"
    /\ dl_max_rounds = max_rounds
    /\ dl_history = << >>
    /\ dl_producer_response = NoResponse
    /\ dl_review_response = NoResponse
    /\ dl_feedback = Unbound
    /\ dl_round_num = 0
    /\ dl_result = NoResult
    /\ dl_exception = None
    /\ dl_calls = << >>

\* run(), lines 132-141: up to the first await of the producer.
DeliberationRun ==
    /\ dl_pc = "constructed"
    /\ dl_pc' = "await_producer_initial"
    /\ dl_round_num' = 1
    /\ dl_calls' = Append(dl_calls, Call("producer", 1, "", ""))
    /\ UNCHANGED << dl_max_rounds, dl_history, dl_producer_response,
                    dl_review_response, dl_feedback, dl_result, dl_exception >>

\* line 212
ConsensusReached_if_any(agreement, threshold) == agreement > 0

ConsensusReached_strict(agreement, threshold) == agreement > threshold
ConsensusReached(agreement, threshold) == agreement >= threshold

\* lines 146-152
InitialErrorResult_content(resp) ==
    DeliberationResult("error", 1, Null, resp.content)
InitialErrorResult(resp) ==
    DeliberationResult("error", 1, Null, error_message(resp))

\* lines 263-271: the code after the loop.
AfterLoop(feedback) ==
    IF feedback.tag = "unbound"
    THEN /\ dl_pc' = "raised"
         /\ dl_exception' = "UnboundLocalError"
         /\ dl_result' = dl_result
    ELSE /\ dl_pc' = "returned"
         /\ dl_exception' = dl_exception
         /\ dl_result' = DeliberationResult("max_rounds", dl_max_rounds,
                IF Truthy(feedback) THEN Get_agreement_level(feedback, Null) ELSE Null,
                None)

\* the loop head with the review prompt built from the producer's response
\* as it was before the invocation just made returned
NextRound_stale_prompt(round, producer_response, feedback, calls) ==
    IF round + 1 <= dl_max_rounds
    THEN /\ dl_round_num' = round + 1
         /\ dl_pc' = "await_reviewer"
         /\ dl_calls' = Append(calls,
                Call("reviewer", round + 1, dl_producer_response.content, ""))
         /\ UNCHANGED << dl_result, dl_exception >>
    ELSE /\ dl_round_num' = round
         /\ dl_calls' = calls
         /\ AfterLoop(feedback)

\* lines 164-174: the loop head for the round after `round`, with the locals
\* as they are when the previous iteration ends (or `continue`s).
NextRound(round, producer_response, feedback, calls) ==
    IF round + 1 <= dl_max_rounds
    THEN /\ dl_round_num' = round + 1
         /\ dl_pc' = "await_reviewer"
         /\ dl_calls' = Append(calls,
                Call("reviewer", round + 1, producer_response.content, ""))
         /\ UNCHANGED << dl_result, dl_exception >>
    ELSE /\ dl_round_num' = round
         /\ dl_calls' = calls
         /\ AfterLoop(feedback)

\* lines 141-174: the producer's first response arrives.
ProducerInitialReturns(resp) ==
    /\ dl_pc = "await_producer_initial"
    /\ dl_producer_response' = resp
    /\ IF is_error(resp)
       THEN /\ dl_pc' = "returned"
            /\ dl_result' = InitialErrorResult(resp)
            /\ dl_calls' = Returned(dl_calls, resp)
            /\ UNCHANGED << dl_history, dl_round_num, dl_exception >>
       ELSE /\ dl_history' = Append(dl_history,
                   HistoryEntry(1, "producer", "initial", resp.content, NoDict))
            /\ NextRound(1, resp, dl_feedback, Returned(dl_calls, resp))
    /\ UNCHANGED << dl_max_rounds, dl_review_response, dl_feedback >>

\* lines 174-232: the reviewer's response of round round_num arrives.
ReviewerReturns(resp) ==
    /\ dl_pc = "await_reviewer"
    /\ dl_review_response' = resp
    /\ IF is_error(resp)
       THEN \* lines 177-180: continue
            /\ NextRound(dl_round_num, dl_producer_response, dl_feedback,
                         Returned(dl_calls, resp))
            /\ UNCHANGED << dl_history, dl_feedback >>
       ELSE LET feedback == dl_parse_json(resp.content)
                agreement == Get_agreement_level(feedback, 0)
            IN /\ dl_feedback' = feedback
               /\ dl_history' = Append(dl_history,
                      HistoryEntry(dl_round_num, "reviewer", "review",
                                   resp.content, feedback))
               /\ IF Truthy(feedback) /\ ConsensusReached(agreement, consensus_threshold)
                  THEN /\ dl_pc' = "returned"
                       /\ dl_result' = DeliberationResult("consensus",
                              dl_round_num, agreement, None)
                       /\ dl_calls' = Returned(dl_calls, resp)
                       /\ UNCHANGED << dl_round_num, dl_exception >>
                  ELSE \* lines 225-232: the producer answers the feedback
                       /\ dl_pc' = "await_producer"
                       /\ dl_calls' = Append(Returned(dl_calls, resp),
                              Call("producer", dl_round_num,
                                   dl_producer_response.content, resp.content))
                       /\ UNCHANGED << dl_round_num, dl_result, dl_exception >>
    /\ UNCHANGED << dl_max_rounds, dl_producer_response >>

\* the producer's answer is recorded whether or not it is an error
ProducerReturns_records_errors(resp) ==
    /\ dl_pc = "await_producer"
    /\ dl_producer_response' = resp
    /\ dl_history' =
         Append(dl_history,
                HistoryEntry(dl_round_num, "producer", "response",
                             resp.content, dl_parse_json(resp.content)))
    /\ NextRound(dl_round_num, resp, dl_feedback, Returned(dl_calls, resp))
    /\ UNCHANGED << dl_max_rounds, dl_review_response, dl_feedback >>

\* lines 232-247 and the loop head: the producer's answer to the feedback.
ProducerReturns(resp) ==
    /\ dl_pc = "await_producer"
    /\ dl_producer_response' = resp
    /\ dl_history' =
         IF is_error(resp) THEN dl_history
         ELSE Append(dl_history,
                HistoryEntry(dl_round_num, "producer", "response",
                             resp.content, dl_parse_json(resp.content)))
    /\ NextRound(dl_round_num, resp, dl_feedback, Returned(dl_calls, resp))
    /\ UNCHANGED << dl_max_rounds, dl_review_response, dl_feedback >>

\* ------------------------------------------------------------- DebateMode
\* Reply texts of a debater (non-error) and what _parse_json makes of them;
\* a text without a JSON object parses to the empty dict.
DebateTexts == { "plain argument", "{argument: A, confidence: 0.9}" }
DebaterResponses == ErrorResponses \cup { AgentResponse(t, None) : t \in DebateTexts }
JudgeTexts ==
    { "plain verdict",
      "{winner: con, score_pro: 0.3, score_con: 0.7, key_factors: [f]}",
      "{winner: tie}" }
JudgeResponses == ErrorResponses \cup { AgentResponse(t, None) : t \in JudgeTexts }

\* debate_mode.py 391-410; a dict is the set of its keys and their values
db_ParsedNothing ==
    [keys |-> {}, argument |-> None, confidence |-> Null, winner |-> None,
     reasoning |-> None, score_pro |-> Null, score_con |-> Null,
     key_factors |-> << >>]
db_parse_json(content) ==
    CASE content = "{argument: A, confidence: 0.9}" ->
            [db_ParsedNothing EXCEPT !.keys = {"argument", "confidence"},
                !.argument = "A", !.confidence = 90]
      [] content = "{winner: con, score_pro: 0.3, score_con: 0.7, key_factors: [f]}" ->
            [db_ParsedNothing EXCEPT
                !.keys = {"winner", "score_pro", "score_con", "key_factors"},
                !.winner = "con", !.score_pro = 30, !.score_con = 70,
                !.key_factors = << "f" >>]
      [] content = "{winner: tie}" ->
            [db_ParsedNothing EXCEPT !.keys = {"winner"}, !.winner = "tie"]
      [] OTHER -> db_ParsedNothing

\* f"[Error: {response.error_message}]"
ErrorText(message) == "[Error: " \o message \o "]"

DebateArgument(agent_id, position, round_num, argument, key_points, confidence) ==
    [agent_id |-> agent_id, position |-> position, round_num |-> round_num,
     argument |-> argument, key_points |-> key_points, confidence |-> confidence]
NoArgument == DebateArgument(None, None, 0, None, << >>, Null)

DebateJudgment(judge_id, winner, reasoning, score_pro, score_con, key_factors) ==
    [judge_id |-> judge_id, winner |-> winner, reasoning |-> reasoning,
     score_pro |-> score_pro, score_con |-> score_con,
     key_factors |-> key_factors]
NoJudgment == DebateJudgment(None, None, None, Null, Null, << >>)

Positions == {"pro", "con"}
\* a coroutine handed to asyncio.gather at line 209
OpeningTask(state, result, completed) ==
    [state |-> state, result |-> result, completed |-> completed]
\* self.pro_agent.name, self.con_agent.name; the judge defaults to pro_agent
AgentOf(position) == IF position = "pro" THEN "pro_agent" ELSE "con_agent"
judge == "pro_agent"

VARIABLES
    db_pc,          \* position of run(): constructed, opening, await_rebuttal,
                    \* await_judge, returned, raised
    db_max_rounds,  \* self.max_rounds
    db_arguments,   \* self.arguments
    db_round_num,   \* loop variable round_num (1 during the openings)
    db_opening,     \* the two opening tasks of asyncio.gather: state, result
                    \* and place in the order of completion (0: not completed)
    db_pro_arg,     \* local pro_arg
    db_con_arg,     \* local con_arg
    db_inflight,    \* agent invocations awaiting their response
    db_judgment,    \* local judgment
    db_judge_reply, \* the response the judge's invocation gave
    db_rounds,      \* DebateResult.rounds, 0 until run returns
    db_exception    \* the exception run() raised, None otherwise

db_vars == << db_pc, db_max_rounds, db_arguments, db_round_num, db_opening,
              db_pro_arg, db_con_arg, db_inflight, db_judgment, db_judge_reply, db_rounds,
              db_exception >>

\* An invocation in flight: which debater, for what, rebutting which argument.
Invocation(kind, position, opponent_arg) ==
    [kind |-> kind, position |-> position, opponent_arg |-> opponent_arg]

Max(S) == CHOOSE x \in S : \A y \in S : y <= x
Min(S) == CHOOSE x \in S : \A y \in S : x <= y

\* the sentinel of a failed opening carries no position
OpeningArgument_unpositioned(position, resp) ==
    IF is_error(resp)
    THEN DebateArgument(AgentOf(position), None, 1,
                        ErrorText(error_message(resp)), << >>, 0)
    ELSE LET parsed == db_parse_json(resp.content) IN
         DebateArgument(AgentOf(position), position, 1,
             IF "argument" \in parsed.keys THEN parsed.argument ELSE resp.content,
             << >>,
             IF "confidence" \in parsed.keys THEN parsed.confidence ELSE 70)

\* _get_opening_argument, lines 278-296
OpeningArgument(position, resp) ==
    IF is_error(resp)
    THEN DebateArgument(AgentOf(position), position, 1,
                        ErrorText(error_message(resp)), << >>, 0)
    ELSE LET parsed == db_parse_json(resp.content) IN
         DebateArgument(AgentOf(position), position, 1,
             IF "argument" \in parsed.keys THEN parsed.argument ELSE resp.content,
             << >>,
             IF "confidence" \in parsed.keys THEN parsed.confidence ELSE 70)

\* line 321: max((a.round_num for a in self.arguments), default=0) + 1
current_round_of_loop(arguments) == (Len(arguments) \div 2) + 1
current_round(arguments) ==
    (IF arguments = << >> THEN 0
     ELSE Max({ arguments[i].round_num : i \in DOMAIN arguments })) + 1

\* _get_rebuttal, lines 319-341
RebuttalArgument(position, resp, arguments) ==
    IF is_error(resp)
    THEN DebateArgument(AgentOf(position), position, current_round(arguments),
                        ErrorText(error_message(resp)), << >>, 0)
    ELSE LET parsed == db_parse_json(resp.content) IN
         DebateArgument(AgentOf(position), position, current_round(arguments),
             IF "argument" \in parsed.keys THEN parsed.argument ELSE resp.content,
             << >>,
             IF "confidence" \in parsed.keys THEN parsed.confidence ELSE 70)

\* _get_last_argument, lines 384-389; NoArgument stands for the ValueError
get_first_argument(arguments, position) ==
    LET S == { i \in DOMAIN arguments : arguments[i].position = position }
    IN IF S = {} THEN NoArgument ELSE arguments[Min(S)]
get_last_argument(arguments, position) ==
    LET S == { i \in DOMAIN arguments : arguments[i].position = position }
    IN IF S = {} THEN NoArgument ELSE arguments[Max(S)]

\* _get_judgment, lines 362-382
Judgment_unchecked(resp) ==
    LET parsed == db_parse_json(resp.content) IN
    DebateJudgment(judge,
        IF "winner" \in parsed.keys THEN parsed.winner ELSE "pro",
        IF "reasoning" \in parsed.keys THEN parsed.reasoning ELSE resp.content,
        IF "score_pro" \in parsed.keys THEN parsed.score_pro ELSE 50,
        IF "score_con" \in parsed.keys THEN parsed.score_con ELSE 50,
        IF "key_factors" \in parsed.keys THEN parsed.key_factors ELSE << >>)
Judgment(resp) ==
    IF is_error(resp)
    THEN DebateJudgment(judge, "pro", ErrorText(error_message(resp)), 50, 50,
                        << >>)
    ELSE LET parsed == db_parse_json(resp.content) IN
         DebateJudgment(judge,
             IF "winner" \in parsed.keys THEN parsed.winner ELSE "pro",
             IF "reasoning" \in parsed.keys THEN parsed.reasoning
             ELSE resp.content,
             IF "score_pro" \in parsed.keys THEN parsed.score_pro ELSE 50,
             IF "score_con" \in parsed.keys THEN parsed.score_con ELSE 50,
             IF "key_factors" \in parsed.keys THEN parsed.key_factors
             ELSE << >>)

\* __init__, lines 173-178
db_Constructed(max_rounds) ==
    /\ db_pc = "constructed"
    /\ db_max_rounds = max_rounds
    /\ db_arguments = << >>
    /\ db_round_num = 0
    /\ db_opening = [p \in Positions |-> OpeningTask("none", NoArgument, 0)]
    /\ db_pro_arg = NoArgument
    /\ db_con_arg = NoArgument
    /\ db_inflight = {}
    /\ db_judgment = NoJudgment
    /\ db_judge_reply = NoResponse
    /\ db_rounds = 0
    /\ db_exception = None

\* run(), lines 194-209: the two opening coroutines are handed to gather.
DebateRun ==
    /\ db_pc = "constructed"
    /\ db_pc' = "opening"
    /\ db_round_num' = 1
    /\ db_opening' = [p \in Positions |-> OpeningTask("pending", NoArgument, 0)]
    /\ UNCHANGED << db_max_rounds, db_arguments, db_pro_arg, db_con_arg,
                    db_inflight, db_judgment, db_judge_reply, db_rounds, db_exception >>

\* _get_opening_argument, lines 264-276: a task of gather starts and reaches
\* its invocation; the event loop starts the tasks in creation order.
OpeningInvoke(position) ==
    /\ db_pc = "opening"
    /\ db_opening[position].state = "pending"
    /\ position = "con" => db_opening["pro"].state /= "pending"
    /\ db_opening' = [db_opening EXCEPT ![position].state = "inflight"]
    /\ db_inflight' = db_inflight \cup {Invocation("opening", position, NoArgument)}
    /\ UNCHANGED << db_pc, db_max_rounds, db_arguments, db_round_num, db_pro_arg,
                    db_con_arg, db_judgment, db_judge_reply, db_rounds, db_exception >>

\* _get_opening_argument, lines 276-296: the response of an opening arrives.
OpeningReturns(position, resp) ==
    /\ db_pc = "opening"
    /\ db_opening[position].state = "inflight"
    /\ db_opening' = [db_opening EXCEPT
            ![position] = OpeningTask("done", OpeningArgument(position, resp),
                              1 + Cardinality({ p \in Positions :
                                                  db_opening[p].state = "done" }))]
    /\ db_inflight' = db_inflight \ {Invocation("opening", position, NoArgument)}
    /\ UNCHANGED << db_pc, db_max_rounds, db_arguments, db_round_num, db_pro_arg,
                    db_con_arg, db_judgment, db_judge_reply, db_rounds, db_exception >>

\* lines 218-224 and 236-240: the loop head after round `round` with the
\* arguments recorded so far: pro's rebuttal of the next round, or the judge.
StartRound(round, arguments) ==
    IF round + 1 <= db_max_rounds
    THEN LET con_last == get_last_argument(arguments, "con") IN
         IF con_last = NoArgument
         THEN /\ db_pc' = "raised"
              /\ db_exception' = "ValueError"
              /\ db_round_num' = round + 1
              /\ db_inflight' = db_inflight
         ELSE /\ db_pc' = "await_rebuttal"
              /\ db_exception' = db_exception
              /\ db_round_num' = round + 1
              /\ db_inflight' = {Invocation("rebuttal", "pro", con_last)}
    ELSE /\ db_pc' = "await_judge"
         /\ db_exception' = db_exception
         /\ db_round_num' = round
         /\ db_inflight' = {Invocation("judge", None, NoArgument)}

\* line 209: the list asyncio.gather(pro_task, con_task) returns
opening_results_by_completion(opening) ==
    IF opening["con"].completed < opening["pro"].completed
    THEN << opening["con"].result, opening["pro"].result >>
    ELSE << opening["pro"].result, opening["con"].result >>
opening_results(opening) == << opening["pro"].result, opening["con"].result >>

\* lines 209-224: gather delivers both openings, run() records them.
OpeningsGathered ==
    /\ db_pc = "opening"
    /\ \A p \in Positions : db_opening[p].state = "done"
    /\ db_pro_arg' = opening_results(db_opening)[1]
    /\ db_con_arg' = opening_results(db_opening)[2]
    /\ db_arguments' = db_arguments \o << db_pro_arg', db_con_arg' >>
    /\ StartRound(1, db_arguments')
    /\ UNCHANGED << db_max_rounds, db_opening, db_judgment, db_judge_reply, db_rounds >>

\* lines 224-228: pro's rebuttal arrives, is recorded, con is invoked with it.
ProRebuttalReturns(resp) ==
    /\ db_pc = "await_rebuttal"
    /\ \E inv \in db_inflight : inv.kind = "rebuttal" /\ inv.position = "pro"
    /\ LET pro_arg == RebuttalArgument("pro", resp, db_arguments) IN
       /\ db_pro_arg' = pro_arg
       /\ db_arguments' = Append(db_arguments, pro_arg)
       /\ db_inflight' = {Invocation("rebuttal", "con", pro_arg)}
    /\ UNCHANGED << db_pc, db_max_rounds, db_round_num, db_opening, db_con_arg,
                    db_judgment, db_judge_reply, db_rounds, db_exception >>

\* lines 228-240: con's rebuttal arrives, is recorded, the next round starts.
ConRebuttalReturns(resp) ==
    /\ db_pc = "await_rebuttal"
    /\ \E inv \in db_inflight : inv.kind = "rebuttal" /\ inv.position = "con"
    /\ LET con_arg == RebuttalArgument("con", resp, db_arguments) IN
       /\ db_con_arg' = con_arg
       /\ db_arguments' = Append(db_arguments, con_arg)
    /\ StartRound(db_round_num, db_arguments')
    /\ UNCHANGED << db_max_rounds, db_opening, db_pro_arg, db_judgment, db_judge_reply, db_rounds >>

\* lines 240-258: the judge's response arrives, run() returns the result.
JudgeReturns(resp) ==
    /\ db_pc = "await_judge"
    /\ db_judgment' = Judgment(resp)
    /\ db_judge_reply' = resp
    /\ db_rounds' = db_max_rounds
    /\ db_inflight' = {}
    /\ db_pc' = "returned"
    /\ UNCHANGED << db_max_rounds, db_arguments, db_round_num, db_opening,
                    db_pro_arg, db_con_arg, db_exception >>

\* ------------------------------------------------------------ CouncilMode
\* Reply texts of a member in Stage 1 and Stage 2 and of the chairman
\* (non-error); a text without a JSON object parses to the empty dict.
OpinionTexts ==
    { "{opinion: X, confidence: 0.9, key_points: [k]}",
      "{opinion: Y, confidence: 1.5}" }
RankingTexts ==
    { "plain ranking",
      "{rankings: {A: 1, B: 2}, reasoning: {A: r}}",
      "{rankings: {A: 2, Z: 1}}",
      "[B, A]" }
SynthesisTexts ==
    { "plain synthesis",
      "{final_answer: F, consensus_level: 0.8, key_insights: [i]}" }
OpinionResponses ==
    { AgentResponse("[Error: Timeout]", "timeout") }
        \cup { AgentResponse(t, None) : t \in OpinionTexts }
RankingResponses ==
    { AgentResponse("[Error: Timeout]", "timeout") }
        \cup { AgentResponse(t, None) : t \in RankingTexts }
SynthesisResponses == ErrorResponses \cup { AgentResponse(t, None) : t \in SynthesisTexts }

\* {} and []: a dict is kept as the sequence of its items <<key, value>>, in
\* insertion order
EmptyDict == << >>

\* d.get(k, default)
dict_get(d, k, default) ==
    IF \E i \in DOMAIN d : d[i][1] = k
    THEN d[CHOOSE i \in DOMAIN d : d[i][1] = k][2]
    ELSE default

\* d[k] = v: a key already present keeps its position and takes the new value
dict_set(d, k, v) ==
    LET S == { i \in DOMAIN d : d[i][1] = k }
    IN IF S = {} THEN Append(d, << k, v >>)
       ELSE [d EXCEPT ![CHOOSE i \in S : TRUE] = << k, v >>]

\* {k: v for k, v in items}
RECURSIVE dict_update(_, _)
dict_update(d, items) ==
    IF items = << >> THEN d
    ELSE dict_update(dict_set(d, Head(items)[1], Head(items)[2]), Tail(items))
dict_from(items) == dict_update(EmptyDict, items)

dict_keys(d) == { d[i][1] : i \in DOMAIN d }

\* council_mode.py 375-395: the value parsed from a reply: a dict with the
\* set of the keys it carries, or, for a reply that is JSON but no object,
\* whatever json.loads made of it (is_dict FALSE)
ParsedNothing ==
    [is_dict |-> TRUE, keys |-> {}, opinion |-> None, confidence |-> Null, key_points |-> << >>,
     rankings |-> EmptyDict, reasoning |-> EmptyDict, final_answer |-> None,
     consensus_level |-> Null, dissenting_views |-> << >>, key_insights |-> << >>]
co_parse_json(content) ==
    CASE content = "{opinion: X, confidence: 0.9, key_points: [k]}" ->
            [ParsedNothing EXCEPT !.keys = {"opinion", "confidence", "key_points"},
                !.opinion = "X", !.confidence = 90, !.key_points = << "k" >>]
      [] content = "{opinion: Y, confidence: 1.5}" ->
            [ParsedNothing EXCEPT !.keys = {"opinion", "confidence"},
                !.opinion = "Y", !.confidence = 150]
      [] content = "{rankings: {A: 1, B: 2}, reasoning: {A: r}}" ->
            [ParsedNothing EXCEPT !.keys = {"rankings", "reasoning"},
                !.rankings = << << "A", 1 >>, << "B", 2 >> >>,
                !.reasoning = << << "A", "r" >> >>]
      [] content = "{rankings: {A: 2, Z: 1}}" ->
            [ParsedNothing EXCEPT !.keys = {"rankings"},
                !.rankings = << << "A", 2 >>, << "Z", 1 >> >>]
      [] content = "[B, A]" -> [ParsedNothing EXCEPT !.is_dict = FALSE]
      [] content = "{final_answer: F, consensus_level: 0.8, key_insights: [i]}" ->
            [ParsedNothing EXCEPT
                !.keys = {"final_answer", "consensus_level", "key_insights"},
                !.final_answer = "F", !.consensus_level = 80,
                !.key_insights = << "i" >>]
      [] OTHER -> ParsedNothing

CouncilOpinion(agent_id, opinion, confidence, key_points) ==
    [agent_id |-> agent_id, opinion |-> opinion, confidence |-> confidence,
     key_points |-> key_points]
NoOpinion == CouncilOpinion(None, None, Null, << >>)
\* Field(ge=0.0, le=1.0) on CouncilOpinion.confidence: construction raises a
\* ValidationError outside the range
opinion_validates(o) == o.confidence >= 0 /\ o.confidence <= 100
PeerRanking(reviewer_id, rankings, reasoning) ==
    [reviewer_id |-> reviewer_id, rankings |-> rankings, reasoning |-> reasoning]
CouncilSynthesis(chairman_id, final_answer, consensus_level, dissenting_views, key_insights) ==
    [chairman_id |-> chairman_id, final_answer |-> final_answer,
     consensus_level |-> consensus_level,
     dissenting_views |-> dissenting_views, key_insights |-> key_insights]
NoSynthesis == CouncilSynthesis(None, None, Null, << >>, << >>)
\* the dict a Stage 2 task returns, before any has
NoRanking ==
    [is_dict |-> TRUE, keys |-> {}, rankings |-> EmptyDict,
     reasoning |-> EmptyDict]
NoSummary == [header |-> None, lines |-> << >>]

\* Names the members of a council may carry (AgentBackend.name).
MemberNames == << "claude", "codex", "gemini", "opencode", "agent5" >>
\* chr(65 + i)
Label(i) == << "A", "B", "C", "D", "E" >>[i]

VARIABLES
    co_pc,              \* position of run(): constructed, opinions, ranking,
                        \* await_chairman, returned, raised
    co_members,         \* self.members, the names of the members in order
    co_max_concurrent,  \* self.max_concurrent
    co_semaphore,       \* self._semaphore: counter value and queue of waiters
    co_task,            \* state of each member's task in the current gather
    co_out_of_order,    \* whether a task of the current gather completed
                        \* before the task of a member earlier in the list
                        \* (FALSE when run() holds no gather)
    co_opinion_replies, \* the response each member's Stage 1 invocation gave
    co_ranking_replies, \* the response each member's Stage 2 invocation gave
    co_chairman_reply,  \* the response the chairman's invocation gave
    co_opinion_results, \* what each Stage 1 task returned
    co_ranking_results, \* what each Stage 2 task returned
    co_gathered_opinions, \* local opinions, the list gather returned
    co_gathered_rankings, \* local rankings, the list gather returned
    co_opinions,        \* self.opinions
    co_anon_map,        \* local anon_map
    co_rankings,        \* self.rankings
    co_rankings_summary, \* the table of the synthesis prompt
    co_synthesis,       \* local synthesis
    co_chairman_calls,  \* number of invocations of the chairman
    co_exception        \* the exception run() raised, None if none

co_vars == << co_pc, co_members, co_max_concurrent, co_semaphore, co_task,
              co_out_of_order, co_opinion_replies, co_ranking_replies,
              co_chairman_reply, co_opinion_results, co_ranking_results,
              co_gathered_opinions, co_gathered_rankings, co_opinions,
              co_anon_map, co_rankings, co_rankings_summary, co_synthesis,
              co_chairman_calls, co_exception >>

\* what run() and its tasks never write
co_config == << co_members, co_max_concurrent >>
\* what only the statements of run() after a gather write
co_stage1 == << co_gathered_opinions, co_opinions, co_anon_map >>
co_stage2 == << co_gathered_rankings, co_rankings, co_rankings_summary >>
co_stage3 == << co_chairman_reply, co_synthesis >>

Members == DOMAIN co_members

\* asyncio.Semaphore(max_concurrent), line 135
Semaphore_per_member(max_concurrent, members) ==
    [value |-> Len(members), waiters |-> << >>]
Semaphore(max_concurrent, members) ==
    [value |-> max_concurrent, waiters |-> << >>]

\* Semaphore.locked(): no permit left, or somebody is queued already
locked(sem) == sem.value = 0 \/ sem.waiters /= << >>

\* Semaphore._wake_up_next(): the first waiter whose future is not done gets
\* the permit; yields the new semaphore and the new task states.
wake_up_next(sem, task) ==
    LET S == { i \in DOMAIN sem.waiters : task[sem.waiters[i]] = "waiting" }
    IN IF S = {}
       THEN [sem |-> sem, task |-> task]
       ELSE [sem |-> [sem EXCEPT !.value = @ - 1],
             task |-> [task EXCEPT ![sem.waiters[Min(S)]] = "woken"]]

\* Semaphore.release()
release(sem, task) == wake_up_next([sem EXCEPT !.value = @ + 1], task)

\* `async with self._semaphore` is left, lines 175 and 198: __aexit__
\* releases whether the block returned or raised
leave_on_return_only(sem, task, raised) ==
    IF raised THEN [sem |-> sem, task |-> task] ELSE release(sem, task)
leave_async_with(sem, task, raised) == release(sem, task)

\* the task of member m completes while the task of an earlier member has not
overtakes(m) ==
    \E j \in Members : j < m /\ co_task[j] \notin {"done", "failed"}

InFlight == { m \in Members : co_task[m] = "inflight" }

\* __init__, lines 127-138
co_Constructed(members, max_concurrent) ==
    /\ co_pc = "constructed"
    /\ co_members = members
    /\ co_max_concurrent = max_concurrent
    /\ co_semaphore = Semaphore(max_concurrent, members)
    /\ co_task = [m \in DOMAIN members |-> "none"]
    /\ co_out_of_order = FALSE
    /\ co_opinion_replies = [m \in DOMAIN members |-> NoResponse]
    /\ co_ranking_replies = [m \in DOMAIN members |-> NoResponse]
    /\ co_chairman_reply = NoResponse
    /\ co_opinion_results = [m \in DOMAIN members |-> NoOpinion]
    /\ co_ranking_results = [m \in DOMAIN members |-> NoRanking]
    /\ co_gathered_opinions = << >>
    /\ co_gathered_rankings = << >>
    /\ co_opinions = << >>
    /\ co_anon_map = EmptyDict
    /\ co_rankings = << >>
    /\ co_rankings_summary = NoSummary
    /\ co_synthesis = NoSynthesis
    /\ co_chairman_calls = 0
    /\ co_exception = None

\* run(), lines 154-182: the Stage 1 coroutines are handed to gather.
CouncilRun ==
    /\ co_pc = "constructed"
    /\ co_pc' = "opinions"
    /\ co_task' = [m \in Members |-> "pending"]
    /\ UNCHANGED << co_config, co_semaphore, co_out_of_order, co_opinion_replies,
                    co_ranking_replies, co_opinion_results, co_ranking_results,
                    co_stage1, co_stage2, co_stage3, co_chairman_calls,
                    co_exception >>

\* get_opinion_with_timing / get_ranking_with_timing, lines 175 and 198: a
\* task of gather runs for the first time (the loop starts the tasks in
\* creation order) and either takes a permit and reaches its invocation, or
\* queues on the semaphore. gather cancels no task when another one raised.
TaskStarts(m) ==
    /\ co_pc \in {"opinions", "ranking", "raised"}
    /\ co_task[m] = "pending"
    /\ \A j \in Members : j < m => co_task[j] /= "pending"
    /\ IF ~locked(co_semaphore)
       THEN /\ co_semaphore' = [co_semaphore EXCEPT !.value = @ - 1]
            /\ co_task' = [co_task EXCEPT ![m] = "inflight"]
       ELSE /\ co_semaphore' = [co_semaphore EXCEPT !.waiters = Append(@, m)]
            /\ co_task' = [co_task EXCEPT ![m] = "waiting"]
    /\ UNCHANGED << co_pc, co_config, co_out_of_order, co_opinion_replies,
                    co_ranking_replies, co_opinion_results, co_ranking_results,
                    co_stage1, co_stage2, co_stage3, co_chairman_calls,
                    co_exception >>

\* Semaphore.acquire() after `await fut`, then lines 176-177 / 199-200: a
\* woken waiter leaves the queue, passes a spare permit on and reaches its
\* invocation.
TaskResumes(m) ==
    /\ co_pc \in {"opinions", "ranking", "raised"}
    /\ co_task[m] = "woken"
    /\ LET sem == [co_semaphore EXCEPT
                      !.waiters = SelectSeq(@, LAMBDA w : w /= m)]
           task == [co_task EXCEPT ![m] = "inflight"]
           woke == IF sem.value > 0 THEN wake_up_next(sem, task)
                   ELSE [sem |-> sem, task |-> task]
       IN /\ co_semaphore' = woke.sem
          /\ co_task' = woke.task
    /\ UNCHANGED << co_pc, co_config, co_out_of_order, co_opinion_replies,
                    co_ranking_replies, co_opinion_results, co_ranking_results,
                    co_stage1, co_stage2, co_stage3, co_chairman_calls,
                    co_exception >>

\* _get_opinion, lines 249-263
Opinion_placeholder(name, resp) ==
    LET parsed == co_parse_json(resp.content) IN
    CouncilOpinion(name,
        IF "opinion" \in parsed.keys THEN parsed.opinion ELSE resp.content,
        IF "confidence" \in parsed.keys THEN parsed.confidence ELSE 70,
        IF "key_points" \in parsed.keys THEN parsed.key_points ELSE << >>)
Opinion(name, resp) ==
    IF is_error(resp)
    THEN CouncilOpinion(name, ErrorText(error_message(resp)), 0, << >>)
    ELSE LET parsed == co_parse_json(resp.content) IN
         CouncilOpinion(name,
             IF "opinion" \in parsed.keys THEN parsed.opinion ELSE resp.content,
             IF "confidence" \in parsed.keys THEN parsed.confidence ELSE 70,
             IF "key_points" \in parsed.keys THEN parsed.key_points ELSE << >>)

\* _get_ranking, lines 272-275: the dict returned
Ranking(resp) ==
    IF is_error(resp)
    THEN [is_dict |-> TRUE, keys |-> {"rankings", "reasoning"},
          rankings |-> EmptyDict, reasoning |-> EmptyDict]
    ELSE LET parsed == co_parse_json(resp.content) IN
         [is_dict |-> parsed.is_dict, keys |-> parsed.keys,
          rankings |-> parsed.rankings, reasoning |-> parsed.reasoning]

\* lines 177-180: a Stage 1 invocation returns; the task leaves the
\* `async with` block, with the opinion or with the error its construction
\* raised.
OpinionReturns(m, resp) ==
    /\ co_pc \in {"opinions", "raised"}
    /\ co_task[m] = "inflight"
    /\ co_opinion_replies' = [co_opinion_replies EXCEPT ![m] = resp]
    /\ co_out_of_order' = (co_out_of_order \/ overtakes(m))
    /\ LET opinion == Opinion(co_members[m], resp)
           raised == ~opinion_validates(opinion)
           left == leave_async_with(co_semaphore,
                       [co_task EXCEPT ![m] = IF raised THEN "failed" ELSE "done"],
                       raised)
       IN /\ co_opinion_results' =
                IF raised THEN co_opinion_results
                ELSE [co_opinion_results EXCEPT ![m] = opinion]
          /\ co_semaphore' = left.sem
          /\ co_task' = left.task
    /\ UNCHANGED << co_pc, co_config, co_ranking_replies, co_ranking_results,
                    co_stage1, co_stage2, co_stage3, co_chairman_calls,
                    co_exception >>

\* lines 200-203: a Stage 2 invocation returns.
RankingReturns(m, resp) ==
    /\ co_pc = "ranking"
    /\ co_task[m] = "inflight"
    /\ co_ranking_replies' = [co_ranking_replies EXCEPT ![m] = resp]
    /\ co_out_of_order' = (co_out_of_order \/ overtakes(m))
    /\ co_ranking_results' = [co_ranking_results EXCEPT ![m] = Ranking(resp)]
    /\ LET left == leave_async_with(co_semaphore,
                       [co_task EXCEPT ![m] = "done"], FALSE)
       IN /\ co_semaphore' = left.sem
          /\ co_task' = left.task
    /\ UNCHANGED << co_pc, co_config, co_opinion_replies, co_opinion_results,
                    co_stage1, co_stage2, co_stage3, co_chairman_calls,
                    co_exception >>

\* asyncio.gather, lines 182 and 205: the list of the tasks' results, in the
\* order the coroutines were passed
gather_by_completion(results, out_of_order) ==
    [i \in DOMAIN results |->
        results[IF out_of_order THEN Len(results) + 1 - i ELSE i]]
gather(results, out_of_order) == [i \in DOMAIN results |-> results[i]]

\* `await asyncio.gather(...)`, lines 182 and 205: run() goes on when every
\* task of the gather has returned
gather_returns_on_first(task) == \E m \in DOMAIN task : task[m] = "done"
gather_returns(task) == \A m \in DOMAIN task : task[m] = "done"

\* line 182: gather hands the first exception of a task on to run(), which
\* does not catch it.
GatherRaises ==
    /\ co_pc = "opinions"
    /\ \E m \in Members : co_task[m] = "failed"
    /\ co_pc' = "raised"
    /\ co_exception' = "ValidationError"
    /\ UNCHANGED << co_config, co_semaphore, co_task, co_out_of_order,
                    co_opinion_replies, co_ranking_replies, co_opinion_results,
                    co_ranking_results, co_stage1, co_stage2, co_stage3,
                    co_chairman_calls >>

\* lines 184-185: self.opinions[member.name] = opinion, in member order; a
\* dict keeps one entry per key, at the position of its first insertion.
RECURSIVE StoreOpinions(_, _, _)
StoreOpinions(opinions, members, results) ==
    IF members = << >> THEN opinions
    ELSE LET o == Head(results)
             S == { i \in DOMAIN opinions : opinions[i].agent_id = Head(members) }
         IN StoreOpinions(
                IF S = {} THEN Append(opinions, o)
                ELSE [opinions EXCEPT ![Min(S)] = o],
                Tail(members), Tail(results))

\* _create_anonymized_map, lines 314-317
create_anonymized_map(members) ==
    dict_from([i \in DOMAIN members |-> << members[i], Label(i) >>])

\* line 207: {v: k for k, v in anon_map.items()}
reverse_anon_map(anon_map) ==
    dict_from([i \in DOMAIN anon_map |-> << anon_map[i][2], anon_map[i][1] >>])

\* lines 182-205: gather delivers the opinions, they are stored, the
\* anonymization map is built and Stage 2 is handed to gather.
OpinionsGathered ==
    /\ co_pc = "opinions"
    /\ gather_returns(co_task)
    /\ co_gathered_opinions' = gather(co_opinion_results, co_out_of_order)
    /\ co_opinions' = StoreOpinions(co_opinions, co_members, co_gathered_opinions')
    /\ co_anon_map' = create_anonymized_map(co_members)
    /\ co_pc' = "ranking"
    /\ co_task' = [m \in Members |-> "pending"]
    /\ co_out_of_order' = FALSE
    /\ UNCHANGED << co_config, co_semaphore, co_opinion_replies,
                    co_ranking_replies, co_opinion_results, co_ranking_results,
                    co_stage2, co_stage3, co_chairman_calls, co_exception >>

\* _deanonymize_ranking, lines 333-349
deanonymize(d, reverse_map) ==
    dict_from([i \in DOMAIN d |->
        << dict_get(reverse_map, d[i][1], d[i][1]), d[i][2] >>])
deanonymize_ranking(ranking, reverse_map) ==
    PeerRanking("unknown",
        deanonymize(IF "rankings" \in ranking.keys THEN ranking.rankings
                    ELSE EmptyDict, reverse_map),
        deanonymize(IF "reasoning" \in ranking.keys THEN ranking.reasoning
                    ELSE EmptyDict, reverse_map))

\* sum(ranks)
RECURSIVE sum(_)
sum(ranks) == IF ranks = << >> THEN 0 ELSE Head(ranks) + sum(Tail(ranks))

\* the (agent_id, rank) items of all rankings, in the order the two loops of
\* council.py 131-132 and council_mode.py 354-355 visit them
RECURSIVE ranking_items(_)
ranking_items(rankings) ==
    IF rankings = << >> THEN << >>
    ELSE Head(rankings).rankings \o ranking_items(Tail(rankings))

\* council.py 130-135 and council_mode.py 353-358: scores, the ranks each
\* agent_id received
RECURSIVE append_scores(_, _)
append_scores(scores, items) ==
    IF items = << >> THEN scores
    ELSE LET agent_id == Head(items)[1]
         IN append_scores(
                dict_set(scores, agent_id,
                         Append(dict_get(scores, agent_id, << >>), Head(items)[2])),
                Tail(items))
scores_of(rankings) == append_scores(EmptyDict, ranking_items(rankings))

\* sum(ranks) / len(ranks), kept as the fraction num/den
average_over_all(ranks, rankings) == [num |-> sum(ranks), den |-> Len(rankings)]
average(ranks, rankings) == [num |-> sum(ranks), den |-> Len(ranks)]

\* CouncilResult.get_aggregate_rankings, council.py 128-140
get_aggregate_rankings(rankings) ==
    LET scores == scores_of(rankings)
    IN [i \in DOMAIN scores |->
           << scores[i][1], average(scores[i][2], rankings) >>]

\* f"{avg:.1f}", line 371: the nearest tenth, a tie going to the even tenth
\* (a tie needs len(ranks) a multiple of 4, and a quarter is an exact float)
format_1f(avg) ==
    LET q == (10 * avg.num) \div avg.den
        r == (10 * avg.num) % avg.den
    IN IF 2 * r < avg.den THEN q
       ELSE IF 2 * r > avg.den THEN q + 1
       ELSE IF q % 2 = 0 THEN q ELSE q + 1

\* x[1] <= y[1] of two averages
avg_le(a, b) == a.num * b.den <= b.num * a.den

\* avg_scores.sort(key=lambda x: x[1]), line 368: ascending and stable
RECURSIVE sort_by_avg(_)
sort_by_avg(avg_scores) ==
    IF avg_scores = << >> THEN << >>
    ELSE LET n == Len(avg_scores)
             x == avg_scores[n]
             rest == sort_by_avg(SubSeq(avg_scores, 1, n - 1))
             k == Cardinality({ i \in DOMAIN rest : avg_le(rest[i][2], x[2]) })
         IN SubSeq(rest, 1, k) \o << x >> \o SubSeq(rest, k + 1, n - 1)

\* _summarize_rankings, lines 351-373: a line holds an agent_id and its
\* average in tenths
summarize_rankings(rankings) ==
    LET scores == scores_of(rankings)
        avg_scores == sort_by_avg([i \in DOMAIN scores |->
                         << scores[i][1], average(scores[i][2], rankings) >>])
    IN IF scores = EmptyDict
       THEN [header |-> "No peer rankings available.", lines |-> << >>]
       ELSE [header |-> "Average rankings (1=best):",
             lines |-> [i \in DOMAIN avg_scores |->
                          << avg_scores[i][1], format_1f(avg_scores[i][2]) >>]]

\* lines 205-220 and 279-292: gather delivers the rankings, they are
\* de-anonymized, the prompt of the synthesis is built and the chairman is
\* invoked. ranking.get (line 333) raises AttributeError on a parsed value
\* that is no dict, before self.rankings is assigned.
RankingsGathered ==
    /\ co_pc = "ranking"
    /\ gather_returns(co_task)
    /\ co_gathered_rankings' = gather(co_ranking_results, co_out_of_order)
    /\ IF \E m \in Members : ~co_gathered_rankings'[m].is_dict
       THEN /\ co_pc' = "raised"
            /\ co_exception' = "AttributeError"
            /\ UNCHANGED << co_rankings, co_rankings_summary,
                            co_chairman_calls >>
       ELSE /\ co_rankings' = [m \in Members |->
                  deanonymize_ranking(co_gathered_rankings'[m],
                                      reverse_anon_map(co_anon_map))]
            /\ co_rankings_summary' = summarize_rankings(co_rankings')
            /\ co_pc' = "await_chairman"
            /\ co_chairman_calls' = co_chairman_calls + 1
            /\ co_exception' = co_exception
    /\ UNCHANGED << co_config, co_semaphore, co_task, co_out_of_order,
                    co_opinion_replies, co_ranking_replies, co_opinion_results,
                    co_ranking_results, co_stage1, co_stage3 >>

\* _synthesize, lines 294-310; the chairman is members[0] (line 131)
Synthesis_defaults(chairman, resp) ==
    LET parsed == co_parse_json(resp.content) IN
    CouncilSynthesis(chairman,
        IF "final_answer" \in parsed.keys THEN parsed.final_answer
        ELSE resp.content,
        IF "consensus_level" \in parsed.keys THEN parsed.consensus_level ELSE 50,
        IF "dissenting_views" \in parsed.keys THEN parsed.dissenting_views
        ELSE << >>,
        IF "key_insights" \in parsed.keys THEN parsed.key_insights ELSE << >>)
Synthesis(chairman, resp) ==
    IF is_error(resp)
    THEN CouncilSynthesis(chairman, ErrorText(error_message(resp)), 0,
                          << >>, << >>)
    ELSE LET parsed == co_parse_json(resp.content) IN
         CouncilSynthesis(chairman,
             IF "final_answer" \in parsed.keys THEN parsed.final_answer
             ELSE resp.content,
             IF "consensus_level" \in parsed.keys THEN parsed.consensus_level
             ELSE 50,
             IF "dissenting_views" \in parsed.keys THEN parsed.dissenting_views
             ELSE << >>,
             IF "key_insights" \in parsed.keys THEN parsed.key_insights
             ELSE << >>)

\* lines 220-234: the chairman's response arrives, run() returns the result.
ChairmanReturns(resp) ==
    /\ co_pc = "await_chairman"
    /\ co_chairman_reply' = resp
    /\ co_synthesis' = Synthesis(co_members[1], resp)
    /\ co_pc' = "returned"
    /\ co_out_of_order' = FALSE
    /\ UNCHANGED << co_config, co_semaphore, co_task,
                    co_opinion_replies, co_ranking_replies, co_opinion_results,
                    co_ranking_results, co_stage1, co_stage2,
                    co_chairman_calls, co_exception >>

\* ------------------------------------------- several runs of one instance
\* run() may be called again on a DeliberationMode or DebateMode instance
\* once the previous call is over.  The records returned are kept as the
\* caller holds them.
VARIABLES
    rn_runs,     \* number of run() calls started on the instance
    rn_start,    \* length of self.history / self.arguments when the current
                 \* run started
    rn_records   \* the records returned so far, oldest first

rn_vars == << rn_runs, rn_start, rn_records >>

\* A returned record: the engine, the run that returned it, the length of
\* the engine's list when that run started, and the list as the record
\* showed it when it was returned.
Record(engine, run, start, returned_with) ==
    [engine |-> engine, run |-> run, start |-> start,
     returned_with |-> returned_with]

\* deliberation_mode.py 146-152, 215-222, 266-272 (history=self.history) and
\* debate_mode.py 250-257 (arguments=self.arguments): the dataclass keeps
\* the reference it is given, so the list a record holds is the engine's.
holds(record) ==
    IF record.engine = "deliberation" THEN dl_history ELSE db_arguments

rn_Idle ==
    /\ rn_runs = 0
    /\ rn_start = 0
    /\ rn_records = << >>

\* the first run() on a fresh instance
rn_FirstRun ==
    /\ rn_runs' = 1
    /\ rn_start' = 0
    /\ UNCHANGED rn_records

\* a step of run(): when it returns, the caller receives the record
rn_Step ==
    /\ rn_records' =
          IF dl_pc /= "returned" /\ dl_pc' = "returned"
          THEN Append(rn_records,
                      Record("deliberation", rn_runs, rn_start, dl_history'))
          ELSE IF db_pc /= "returned" /\ db_pc' = "returned"
          THEN Append(rn_records,
                      Record("debate", rn_runs, rn_start, db_arguments'))
          ELSE rn_records
    /\ UNCHANGED << rn_runs, rn_start >>

\* deliberation_mode.py 123-141 on an instance whose previous run() is over:
\* the locals are fresh, self.history is what the previous runs left.
DeliberationRunAgain ==
    /\ dl_pc \in {"returned", "raised"}
    /\ rn_runs < MaxRuns
    /\ dl_pc' = "await_producer_initial"
    /\ dl_round_num' = 1
    /\ dl_producer_response' = NoResponse
    /\ dl_review_response' = NoResponse
    /\ dl_feedback' = Unbound
    /\ dl_result' = NoResult
    /\ dl_exception' = None
    /\ dl_calls' = << Call("producer", 1, "", "") >>
    /\ rn_runs' = rn_runs + 1
    /\ rn_start' = Len(dl_history)
    /\ UNCHANGED << dl_max_rounds, dl_history, rn_records >>

\* debate_mode.py 185-209 on an instance whose previous run() is over: the
\* locals are fresh, self.arguments is what the previous runs left.
DebateRunAgain ==
    /\ db_pc \in {"returned", "raised"}
    /\ rn_runs < MaxRuns
    /\ db_pc' = "opening"
    /\ db_round_num' = 1
    /\ db_opening' = [p \in Positions |-> OpeningTask("pending", NoArgument, 0)]
    /\ db_pro_arg' = NoArgument
    /\ db_con_arg' = NoArgument
    /\ db_inflight' = {}
    /\ db_judgment' = NoJudgment
    /\ db_judge_reply' = NoResponse
    /\ db_rounds' = 0
    /\ db_exception' = None
    /\ rn_runs' = rn_runs + 1
    /\ rn_start' = Len(db_arguments)
    /\ UNCHANGED << db_max_rounds, db_arguments, rn_records >>

\* ------------------------------------------------------------- _parse_json
\* A reply text is a sequence of lexemes.  The scan of _parse_json looks at
\* the characters "{" and "}" only, and json.loads at the lexemes, so a
\* lexeme stands for its characters: braces, brackets, a key with its colon,
\* and a number (which is also a word of prose).
Chars == { "{", "}", "[", "]", "k:", "1" }
Texts == UNION { [1..n -> Chars] : n \in 0..MaxTextLen }

\* The value json.loads builds, by its Python type and the text it was
\* parsed from.
Value(kind, src) == [kind |-> kind, src |-> src]
EmptyObject == Value("dict", << "{", "}" >>)
NoneValue == Value("NoneType", << >>)
Engines == { "deliberation", "debate", "council" }

\* json.loads: the index after the JSON value that starts at lexeme i of
\* text, 0 when no value starts there.
RECURSIVE value_end(_, _)
value_end(text, i) ==
    IF i > Len(text) THEN 0
    ELSE CASE text[i] = "1" -> i + 1
           [] text[i] \in {"{", "["} ->
                LET close == IF text[i] = "{" THEN "}" ELSE "]"
                    inner == IF text[i] = "{" THEN i + 2 ELSE i + 1
                    has_member ==
                        IF text[i] = "{"
                        THEN i + 1 <= Len(text) /\ text[i + 1] = "k:"
                        ELSE i + 1 <= Len(text) /\ text[i + 1] /= "]"
                    j == IF has_member THEN value_end(text, inner) ELSE i + 1
                IN  IF j /= 0 /\ j <= Len(text) /\ text[j] = close
                    THEN j + 1 ELSE 0
           [] OTHER -> 0

\* json.loads(content): the value, or ok FALSE for JSONDecodeError.
type_of(char) ==
    CASE char = "{" -> "dict" [] char = "[" -> "list" [] OTHER -> "int"
json_loads(content) ==
    IF content /= << >> /\ value_end(content, 1) = Len(content) + 1
    THEN [ok |-> TRUE, value |-> Value(type_of(content[1]), content)]
    ELSE [ok |-> FALSE, value |-> NoneValue]

\* content.find("{"): the index of the first "{", 0 for Python's -1.
find(content, char) ==
    IF \E i \in DOMAIN content : content[i] = char
    THEN CHOOSE i \in DOMAIN content :
            content[i] = char /\ \A j \in 1..(i - 1) : content[j] /= char
    ELSE 0

\* The for loop of _parse_json from index i with the depth reached so far:
\* the index of the "}" that brings the depth back to 0, 0 when the text
\* ends first.
RECURSIVE depth_zero_at(_, _, _)
depth_zero_at(content, i, depth) ==
    IF i > Len(content) THEN 0
    ELSE CASE content[i] = "{" -> depth_zero_at(content, i + 1, depth + 1)
           [] content[i] = "}" ->
                IF depth - 1 = 0 THEN i
                ELSE depth_zero_at(content, i + 1, depth - 1)
           [] OTHER -> depth_zero_at(content, i + 1, depth)

\* The except branch of _parse_json: the text from the first "{" to the "}"
\* that balances it, parsed; the fallback when there is no such text or it
\* is not JSON (the scan stops at the first depth 0).
extract_json(content, fallback) ==
    LET start == find(content, "{")
        end == IF start = 0 THEN 0 ELSE depth_zero_at(content, start, 0)
        inner == IF end = 0 THEN json_loads(<< >>)
                 ELSE json_loads(SubSeq(content, start, end))
    IN  IF inner.ok THEN inner.value ELSE fallback

\* _parse_json of an engine whose fallback is the given value: whatever
\* json.loads makes of the whole text, else the extracted object.
parse_json(content, fallback) ==
    LET whole == json_loads(content)
    IN  IF whole.ok THEN whole.value ELSE extract_json(content, fallback)

\* deliberation_mode.py 273-294, debate_mode.py 391-410, council_mode.py 375-395
deliberation_parse_json(content) == parse_json(content, NoneValue)
debate_parse_json(content) == parse_json(content, EmptyObject)
council_parse_json(content) == parse_json(content, EmptyObject)

VARIABLES
    pj_pc,        \* "idle", "called", "returned"
    pj_engine,    \* the engine whose _parse_json is called
    pj_content,   \* the reply text
    pj_result     \* the value returned

pj_vars == << pj_pc, pj_engine, pj_content, pj_result >>

pj_Idle ==
    /\ pj_pc = "idle"
    /\ pj_engine = "council"
    /\ pj_content = << >>
    /\ pj_result = NoneValue

pj_Called(engine, content) ==
    /\ pj_pc = "called"
    /\ pj_engine = engine
    /\ pj_content = content
    /\ pj_result = NoneValue

DeliberationParses ==
    /\ pj_pc = "called" /\ pj_engine = "deliberation"
    /\ pj_result' = deliberation_parse_json(pj_content)
    /\ pj_pc' = "returned"
    /\ UNCHANGED << pj_engine, pj_content >>

DebateParses ==
    /\ pj_pc = "called" /\ pj_engine = "debate"
    /\ pj_result' = debate_parse_json(pj_content)
    /\ pj_pc' = "returned"
    /\ UNCHANGED << pj_engine, pj_content >>

CouncilParses ==
    /\ pj_pc = "called" /\ pj_engine = "council"
    /\ pj_result' = council_parse_json(pj_content)
    /\ pj_pc' = "returned"
    /\ UNCHANGED << pj_engine, pj_content >>

\* ---------------------------------------------------------------- backends
\* response.py 18-35 with the metadata map spelled out: a dict of items,
\* in which the string None stands for Python's None.
Response(content, metadata) == [content |-> content, metadata |-> metadata]
NoBackendResponse == Response(None, EmptyDict)
\* response.py 27-30 and 32-35
Response_is_error_truthy(r) == dict_get(r.metadata, "error", None) \notin {None, ""}
Response_is_error(r) == dict_get(r.metadata, "error", None) /= None
Response_error_message(r) == dict_get(r.metadata, "error", None)

Backends == { "claude", "codex", "gemini", "opencode" }
\* the default timeout of each backend, in seconds
timeout_of(backend) == IF backend = "codex" THEN 300 ELSE 600
\* the backends whose invoke has a branch for a status callback
Streams == { "claude", "codex", "gemini" }
\* the streaming backends that feed the prompt through stdin
WritesStdin == { "claude", "codex" }

\* the exit codes of the subprocess explored
ReturnCodes == { 0, 1 }

\* A line of subprocess output either carries text of the answer or is an
\* event that carries none.
LineKinds == { "message", "event" }
Outputs == UNION { [1..n -> LineKinds] : n \in 0..MaxLines }
\* what a failing subprocess call raises besides FileNotFoundError and
\* asyncio.TimeoutError, by its message
OtherFailures == { "Permission denied", "" }

\* _parse_response / _parse_jsonl_response and the content_parts of the
\* streaming loops: the answer's text, the raw output when a JSON document
\* holds no answer, or the empty string.
final_content(backend, streaming, lines) ==
    LET content_parts == SelectSeq(lines, LAMBDA l : l = "message")
    IN  IF content_parts /= << >> THEN "message"
        ELSE IF backend \in {"codex", "opencode"} \/ lines = << >> THEN ""
        ELSE "raw output"

\* the three except branches of invoke
TimeoutResponse(backend) ==
    Response("[Error: Timeout]",
             dict_from(<< << "error", "timeout" >>,
                          << "timeout_seconds", timeout_of(backend) >> >>))
cli_name(backend) ==
    CASE backend = "claude" -> "Claude" [] backend = "codex" -> "Codex"
      [] backend = "gemini" -> "Gemini" [] OTHER -> "OpenCode"
CliNotFoundResponse(backend) ==
    Response(ErrorText(cli_name(backend) \o " CLI not found"),
             dict_from(<< << "error", "cli_not_found" >> >>))
ExceptionResponse(message) ==
    Response(ErrorText(message), dict_from(<< << "error", message >> >>))

\* the return statements of the try block: codex reports an empty answer
\* as an error, the others return whatever content they have
OutputResponse(backend, streaming, lines, return_code) ==
    LET content == final_content(backend, streaming, lines)
    IN  IF backend = "codex" /\ content = ""
        THEN Response("[Error: Empty response from Codex]",
                      dict_from(<< << "return_code", return_code >>,
                                   << "error", "empty_response" >> >>))
        ELSE Response(content, dict_from(<< << "return_code", return_code >> >>))

\* The responses explored for the properties of AgentResponse: any content
\* with any metadata, with or without an "error" key, whose value may be
\* None, and with or without other keys.
ResponseContents == { "", "text", "[Error: Timeout]" }
ErrorValues == { None, "", "timeout", "cli_not_found", "Permission denied" }
items_of(key, values) == { << >> } \cup { << << key, v >> >> : v \in values }
Metadatas ==
    { dict_from(m \o e \o c) : m \in items_of("model", {"opus"}),
                                e \in items_of("error", ErrorValues),
                                c \in items_of("return_code", ReturnCodes) }

VARIABLES
    rs_pc,            \* "idle", "built", "read"
    rs_response,      \* the AgentResponse
    rs_is_error,      \* what its property is_error gave
    rs_error_message  \* what its property error_message gave

rs_vars == << rs_pc, rs_response, rs_is_error, rs_error_message >>

rs_Idle ==
    /\ rs_pc = "idle"
    /\ rs_response = NoBackendResponse
    /\ rs_is_error = FALSE
    /\ rs_error_message = None

rs_Built(content, metadata) ==
    /\ rs_pc = "built"
    /\ rs_response = Response(content, metadata)
    /\ rs_is_error = FALSE
    /\ rs_error_message = None

\* response.py 27-35: the two properties are read
PropertiesRead ==
    /\ rs_pc = "built"
    /\ rs_is_error' = Response_is_error(rs_response)
    /\ rs_error_message' = Response_error_message(rs_response)
    /\ rs_pc' = "read"
    /\ UNCHANGED rs_response

VARIABLES
    bk_pc,          \* "idle", "called", "writing", "reading", "waiting",
                    \* "communicating", "returned", "raised"
    bk_backend,     \* the backend invoked
    bk_callback,    \* whether invoke was given a status_callback
    bk_lines,       \* output_lines read by the streaming loop
    bk_response,    \* the response returned
    bk_expired,     \* whether a timeout of this invocation expired
    bk_failure      \* the exception a subprocess call raised, None if none

bk_vars == << bk_pc, bk_backend, bk_callback, bk_lines, bk_response,
              bk_expired, bk_failure >>
bk_call == << bk_backend, bk_callback >>

bk_Idle ==
    /\ bk_pc = "idle"
    /\ bk_backend = "claude"
    /\ bk_callback = FALSE
    /\ bk_lines = << >>
    /\ bk_response = NoBackendResponse
    /\ bk_expired = FALSE
    /\ bk_failure = None

bk_Invoked(backend, callback) ==
    /\ bk_pc = "called"
    /\ bk_backend = backend
    /\ bk_callback = callback
    /\ bk_lines = << >>
    /\ bk_response = NoBackendResponse
    /\ bk_expired = FALSE
    /\ bk_failure = None

streaming == bk_callback /\ bk_backend \in Streams

\* invoke returns resp from one of its return statements
bk_Return(resp) ==
    /\ bk_response' = resp
    /\ bk_pc' = "returned"

\* create_subprocess_exec returns a process
Spawned ==
    /\ bk_pc = "called"
    /\ bk_pc' = IF ~streaming THEN "communicating"
                ELSE IF bk_backend \in WritesStdin THEN "writing"
                ELSE "reading"
    /\ UNCHANGED << bk_call, bk_lines, bk_response, bk_expired, bk_failure >>

\* create_subprocess_exec raises FileNotFoundError
SpawnFindsNoCli ==
    /\ bk_pc = "called"
    /\ bk_failure' = "FileNotFoundError"
    /\ bk_Return(CliNotFoundResponse(bk_backend))
    /\ UNCHANGED << bk_call, bk_lines, bk_expired >>

\* a subprocess call (spawn, stdin write, readline, wait, communicate)
\* raises another exception
SubprocessFails(message) ==
    /\ bk_pc \in {"called", "writing", "reading", "waiting", "communicating"}
    /\ bk_failure' = message
    /\ bk_Return(ExceptionResponse(message))
    /\ UNCHANGED << bk_call, bk_lines, bk_expired >>

\* the prompt is written to stdin and stdin is closed
PromptWritten ==
    /\ bk_pc = "writing"
    /\ bk_pc' = "reading"
    /\ UNCHANGED << bk_call, bk_lines, bk_response, bk_expired, bk_failure >>

\* readline returns a line within the timeout
LineRead(line) ==
    /\ bk_pc = "reading"
    /\ Len(bk_lines) < MaxLines
    /\ bk_lines' = Append(bk_lines, line)
    /\ UNCHANGED << bk_pc, bk_call, bk_response, bk_expired, bk_failure >>

\* readline returns the empty string at end of file: break
EndOfOutput ==
    /\ bk_pc = "reading"
    /\ bk_pc' = "waiting"
    /\ UNCHANGED << bk_call, bk_lines, bk_response, bk_expired, bk_failure >>

\* wait_for(readline) raises TimeoutError, caught inside the loop: break
ReadlineTimesOut ==
    /\ bk_pc = "reading"
    /\ bk_expired' = TRUE
    /\ bk_pc' = "waiting"
    /\ UNCHANGED << bk_call, bk_lines, bk_response, bk_failure >>

\* proc.wait() returns: the streaming branch builds its response
ProcessExits(return_code) ==
    /\ bk_pc = "waiting"
    /\ bk_Return(OutputResponse(bk_backend, TRUE, bk_lines, return_code))
    /\ UNCHANGED << bk_call, bk_lines, bk_expired, bk_failure >>

\* wait_for(communicate) returns the whole output within the timeout
Communicated(lines, return_code) ==
    /\ bk_pc = "communicating"
    /\ bk_lines' = lines
    /\ bk_Return(OutputResponse(bk_backend, FALSE, lines, return_code))
    /\ UNCHANGED << bk_call, bk_expired, bk_failure >>

\* wait_for(communicate) raises TimeoutError: the except branch of invoke
CommunicateTimesOut ==
    /\ bk_pc = "communicating"
    /\ bk_expired' = TRUE
    /\ bk_Return(TimeoutResponse(bk_backend))
    /\ UNCHANGED << bk_call, bk_lines, bk_failure >>

\* ---------------------------------------------------------------- personas
\* personas.py 37-184: the personas by name, and the keyword table in the
\* order of the dict
DEVIL_ADVOCATE == "Devil's Advocate"
CODE_QUALITY_REVIEWER == "Code Quality Reviewer"
SYSTEMS_ARCHITECT == "Systems Architect"
BUSINESS_STRATEGIST == "Business Strategist"
TASK_KEYWORDS ==
    << [keywords |->
          { "security", "auth", "authentication", "authorization",
            "vulnerability", "owasp", "injection", "xss", "csrf",
            "encryption", "credentials", "password", "token" },
        persona |-> "Security Analyst"],
       [keywords |->
          { "scalability", "performance", "architecture", "scale",
            "load", "throughput", "latency", "caching", "distributed",
            "microservice", "infrastructure" },
        persona |-> "Systems Architect"],
       [keywords |->
          { "refactor", "code review", "maintainability", "testing",
            "test coverage", "code quality", "clean code", "patterns",
            "best practices" },
        persona |-> "Code Quality Reviewer"],
       [keywords |->
          { "business", "strategy", "market", "competitive",
            "monetization", "revenue", "startup", "idea", "opportunity",
            "growth", "traction" },
        persona |-> "Business Strategist"],
       [keywords |->
          { "product", "feature", "user", "ux", "roadmap", "prioritize",
            "requirements", "user story", "customer", "feedback" },
        persona |-> "Product Manager"],
       [keywords |->
          { "database", "data model", "schema", "query", "sql", "nosql",
            "pipeline", "etl", "data warehouse", "analytics" },
        persona |-> "Data Engineer"],
       [keywords |->
          { "deploy", "deployment", "ci/cd", "kubernetes", "docker",
            "monitoring", "observability", "infrastructure", "ops",
            "reliability" },
        persona |-> "DevOps Engineer"],
       [keywords |->
          { "ui", "interface", "design", "usability", "accessibility",
            "a11y", "navigation", "layout", "visual" },
        persona |-> "UX Designer"],
       [keywords |->
          { "pricing", "cost", "budget", "revenue", "profit", "margin",
            "unit economics", "funding", "investment", "financial" },
        persona |-> "Financial Analyst"] >>

\* A task text is the set of its words, drawn from a vocabulary whose words
\* hit keywords of every kind: of one persona or two, as a whole word or
\* only as a part of a longer word.
Vocabulary == { "security", "authentication", "revenue", "infrastructure",
                "build", "testing", "product", "database" }
Tasks == SUBSET Vocabulary
\* keyword in task_lower, for one word of the task
keywords_in(word) ==
    CASE word = "security" -> { "security" }
      [] word = "authentication" -> { "auth", "authentication" }
      [] word = "revenue" -> { "revenue" }
      [] word = "infrastructure" -> { "infrastructure" }
      [] word = "build" -> { "ui" }
      [] word = "testing" -> { "testing" }
      [] word = "product" -> { "product" }
      [] word = "database" -> { "database" }
      [] OTHER -> {}
\* re.search(rf"\\b{keyword}\\b", task_lower), for one word of the task
keywords_as_word(word) ==
    CASE word = "security" -> { "security" }
      [] word = "authentication" -> { "authentication" }
      [] word = "revenue" -> { "revenue" }
      [] word = "infrastructure" -> { "infrastructure" }
      [] word = "build" -> {}
      [] word = "testing" -> { "testing" }
      [] word = "product" -> { "product" }
      [] word = "database" -> { "database" }
      [] OTHER -> {}

\* personas.py 187-197
score_persona(task, keywords) ==
    Cardinality({ k \in keywords : \E w \in task : k \in keywords_in(w) })
        + Cardinality({ k \in keywords : \E w \in task : k \in keywords_as_word(w) })

\* personas.py 210-215: the personas that score above zero, in table order
RECURSIVE scored_from(_, _)
scored_from(task, i) ==
    IF i > Len(TASK_KEYWORDS) THEN << >>
    ELSE LET score == score_persona(task, TASK_KEYWORDS[i].keywords)
             rest == scored_from(task, i + 1)
         IN  IF score > 0
             THEN << << score, TASK_KEYWORDS[i].persona >> >> \o rest
             ELSE rest

\* personas.py 218: list.sort by score, descending and stable
RECURSIVE sort_by_score(_)
sort_by_score(scored) ==
    IF scored = << >> THEN << >>
    ELSE LET best == CHOOSE i \in DOMAIN scored :
                        /\ \A j \in DOMAIN scored : scored[j][1] <= scored[i][1]
                        /\ \A j \in 1..(i - 1) : scored[j][1] < scored[i][1]
             others == [j \in 1..(Len(scored) - 1) |->
                          IF j < best THEN scored[j] ELSE scored[j + 1]]
         IN  << scored[best] >> \o sort_by_score(others)

\* The state of the selection: the list and the names seen.
Selection(selected, seen_names) == [selected |-> selected, seen_names |-> seen_names]

\* personas.py 221-229: the best-scored personas, until there are num_agents
RECURSIVE select_scored(_, _, _)
select_scored(sel, scored, num_agents) ==
    IF scored = << >> THEN sel
    ELSE LET persona == Head(scored)[2]
         IN  IF persona \notin sel.seen_names
             THEN LET next == Selection(Append(sel.selected, persona),
                                        sel.seen_names \cup {persona})
                  IN  IF Len(next.selected) >= num_agents THEN next
                      ELSE select_scored(next, Tail(scored), num_agents)
             ELSE select_scored(sel, Tail(scored), num_agents)

\* personas.py 232-237
defaults ==
    << CODE_QUALITY_REVIEWER, DEVIL_ADVOCATE, SYSTEMS_ARCHITECT, BUSINESS_STRATEGIST >>

\* personas.py 239-244: the defaults not yet seen, while there is room
RECURSIVE add_defaults_unseen_or_not(_, _, _)
add_defaults_unseen_or_not(sel, personas, num_agents) ==
    IF personas = << >> \/ Len(sel.selected) >= num_agents THEN sel
    ELSE add_defaults_unseen_or_not(
             Selection(Append(sel.selected, Head(personas)),
                       sel.seen_names \cup {Head(personas)}),
             Tail(personas), num_agents)
RECURSIVE add_defaults(_, _, _)
add_defaults(sel, personas, num_agents) ==
    IF personas = << >> \/ Len(sel.selected) >= num_agents THEN sel
    ELSE IF Head(personas) \notin sel.seen_names
    THEN add_defaults(Selection(Append(sel.selected, Head(personas)),
                                sel.seen_names \cup {Head(personas)}),
                      Tail(personas), num_agents)
    ELSE add_defaults(sel, Tail(personas), num_agents)

\* personas.py 246-252: with 3 or more agents the Devil's Advocate replaces
\* the last persona of a full list, or is appended to a shorter one
include_devil_advocate_if_room(sel, num_agents) ==
    IF num_agents >= 3 /\ DEVIL_ADVOCATE \notin sel.seen_names
           /\ Len(sel.selected) < num_agents
    THEN Append(sel.selected, DEVIL_ADVOCATE)
    ELSE sel.selected
include_devil_advocate(sel, num_agents) ==
    IF num_agents >= 3 /\ DEVIL_ADVOCATE \notin sel.seen_names
    THEN IF Len(sel.selected) >= num_agents
         THEN [sel.selected EXCEPT ![Len(sel.selected)] = DEVIL_ADVOCATE]
         ELSE Append(sel.selected, DEVIL_ADVOCATE)
    ELSE sel.selected

\* selected[:num_agents], a Python slice: a negative bound counts from the end
slice_to(list, n) ==
    LET stop == IF n >= 0 THEN Min({n, Len(list)}) ELSE Max({Len(list) + n, 0})
    IN  SubSeq(list, 1, stop)

\* personas.py 200-254
infer_personas(task, num_agents) ==
    LET scored_personas == sort_by_score(scored_from(task, 1))
        scored == select_scored(Selection(<< >>, {}), scored_personas, num_agents)
        filled == add_defaults(scored, defaults, num_agents)
    IN  slice_to(include_devil_advocate(filled, num_agents), num_agents)

VARIABLES
    ps_pc,          \* "idle", "called", "returned"
    ps_task,        \* the task text
    ps_num_agents,  \* num_agents
    ps_personas     \* the list returned

ps_vars == << ps_pc, ps_task, ps_num_agents, ps_personas >>

ps_Idle ==
    /\ ps_pc = "idle"
    /\ ps_task = {}
    /\ ps_num_agents = 0
    /\ ps_personas = << >>

ps_Called(task, num_agents) ==
    /\ ps_pc = "called"
    /\ ps_task = task
    /\ ps_num_agents = num_agents
    /\ ps_personas = << >>

InferPersonas ==
    /\ ps_pc = "called"
    /\ ps_personas' = infer_personas(ps_task, ps_num_agents)
    /\ ps_pc' = "returned"
    /\ UNCHANGED << ps_task, ps_num_agents >>

\* ---------------------------------------------------------------- registry
\* The classes handed to the registry: the three backends it imports, a
\* custom concrete backend, the abstract base class itself, and a class
\* that does not derive from AgentBackend.
BackendClasses == { "ClaudeBackend", "CodexBackend", "GeminiBackend", "MockBackend" }
Classes == BackendClasses \cup { "AgentBackend", "NotAnAgent" }
\* registry.py 68: issubclass(agent_class, AgentBackend)
issubclass_AgentBackend(class) == class /= "NotAnAgent"
\* base.py 12-47: a class with abstract methods left cannot be instantiated
is_abstract(class) == class = "AgentBackend"

\* the names used in register_agent and get_agent calls
AgentNames == { "codex", "mock" }

\* __init__ of the backends called without arguments: the attributes the
\* instance gets (claude_backend.py 25-47, codex_backend.py 24-42,
\* gemini_backend.py 24-45)
Instance(class, attrs) == [class |-> class, attrs |-> attrs]
NoInstance == Instance(None, EmptyDict)
instantiate(class) ==
    CASE class = "ClaudeBackend" ->
            Instance(class, dict_from(<< << "model", "opus" >>, << "max_turns", 25 >>,
                                         << "timeout", 600 >>, << "verbose", FALSE >> >>))
      [] class = "CodexBackend" ->
            Instance(class, dict_from(<< << "timeout", 300 >>, << "model", None >>,
                                         << "full_disk_read", TRUE >>, << "verbose", FALSE >> >>))
      [] class = "GeminiBackend" ->
            Instance(class, dict_from(<< << "model", "gemini-3-pro-preview" >>,
                                         << "timeout", 600 >>, << "sandbox", TRUE >>,
                                         << "verbose", FALSE >> >>))
      [] OTHER -> Instance(class, EmptyDict)

\* registry.py 11-15
AGENTS_at_import ==
    dict_from(<< << "claude", "ClaudeBackend" >>, << "codex", "CodexBackend" >>,
                 << "gemini", "GeminiBackend" >> >>)

\* registry.py 71: AGENTS[name] = agent_class
store_if_absent(agents, name, class) ==
    IF name \in dict_keys(agents) THEN agents ELSE dict_set(agents, name, class)
store(agents, name, class) == dict_set(agents, name, class)

VARIABLES
    rg_AGENTS,    \* the module's AGENTS dict
    rg_calls,     \* number of calls made so far
    rg_last,      \* the last call: operation, name, class given, outcome,
                  \* instance returned, and AGENTS as it was before the call
    rg_accepted   \* the registrations made, oldest first: name and class

rg_vars == << rg_AGENTS, rg_calls, rg_last, rg_accepted >>

RegistryCall(op, name, class, outcome, instance, before) ==
    [op |-> op, name |-> name, class |-> class, outcome |-> outcome,
     instance |-> instance, before |-> before]
NoCall == RegistryCall(None, None, None, None, NoInstance, EmptyDict)

\* the module as imported
rg_Imported ==
    /\ rg_AGENTS = AGENTS_at_import
    /\ rg_calls = 0
    /\ rg_last = NoCall
    /\ rg_accepted = AGENTS_at_import

\* registry.py 61-71
RegisterAgent(name, class) ==
    /\ rg_calls < MaxCalls
    /\ rg_calls' = rg_calls + 1
    /\ IF ~issubclass_AgentBackend(class)
       THEN /\ rg_last' = RegistryCall("register_agent", name, class, "TypeError",
                                       NoInstance, rg_AGENTS)
            /\ UNCHANGED << rg_AGENTS, rg_accepted >>
       ELSE /\ rg_AGENTS' = store(rg_AGENTS, name, class)
            /\ rg_accepted' = Append(rg_accepted, << name, class >>)
            /\ rg_last' = RegistryCall("register_agent", name, class, "returned",
                                       NoInstance, rg_AGENTS)

\* registry.py 19-36, called without keyword arguments
GetAgent(name) ==
    /\ rg_calls < MaxCalls
    /\ rg_calls' = rg_calls + 1
    /\ LET class == dict_get(rg_AGENTS, name, None)
       IN  rg_last' =
             IF name \notin dict_keys(rg_AGENTS)
             THEN RegistryCall("get_agent", name, None, "ValueError",
                               NoInstance, rg_AGENTS)
             ELSE IF is_abstract(class)
             THEN RegistryCall("get_agent", name, None, "TypeError",
                               NoInstance, rg_AGENTS)
             ELSE RegistryCall("get_agent", name, None, "returned",
                               instantiate(class), rg_AGENTS)
    /\ UNCHANGED << rg_AGENTS, rg_accepted >>

\* ------------------------------------------------------- run_council.main
\* run_council.py 20
MAX_TASK_LENGTH == 100000

\* --task: its length and whether task.strip() is empty
Task(length, blank) == [length |-> length, blank |-> blank]
DriverTasks ==
    { Task(0, TRUE), Task(3, TRUE), Task(3, FALSE),
      Task(MAX_TASK_LENGTH, FALSE), Task(MAX_TASK_LENGTH + 1, FALSE) }
\* --agent-names, split at the commas (<< >>: not given)
AgentNameLists ==
    { << >>, << "claude", "codex" >>, << "codex" >>, << "claude", "opencode" >> }
\* --personas: not given, a JSON array, other JSON, no JSON
PersonasArgs == { "none", "array", "object", "invalid" }
\* what get_available_agents() returns: the registered agents whose health
\* check passes, in the order of AGENTS
AvailableLists ==
    { SelectSeq(<< "claude", "codex", "gemini" >>, LAMBDA name : name \in S) :
        S \in SUBSET {"claude", "codex", "gemini"} }

\* validate_input, run_council.py 23-29: the error message, or None
validate_input(task) ==
    IF task.length = 0 \/ task.blank THEN "Task cannot be empty"
    ELSE IF task.length > MAX_TASK_LENGTH THEN "Task too long"
    ELSE None

\* the parameters CouncilMode.__init__ takes, council_mode.py 110-117
CouncilMode_parameters ==
    { "members", "chairman", "use_personas", "verbose", "max_concurrent" }
\* the keyword arguments main passes, run_council.py 95-101
main_keywords ==
    { "members", "chairman", "use_personas", "custom_personas", "verbose" }
\* the call CouncilMode(**keywords): binding the arguments, then lines
\* 127-128; the exception raised, or None
CouncilMode_init(keywords, members) ==
    IF ~(keywords \subseteq CouncilMode_parameters) THEN "TypeError"
    ELSE IF Len(members) < 2 THEN "ValueError"
    ELSE None

VARIABLES
    mn_pc,          \* position of main(): start, validated, parsed, available,
                    \* selected, run_called, exited, raised
    mn_args,        \* the parsed command line
    mn_available,   \* local available
    mn_selected,    \* local selected_agents
    mn_error,       \* the error printed before sys.exit(1), None if none
    mn_exception    \* the exception main() raised, None if none

mn_vars == << mn_pc, mn_args, mn_available, mn_selected, mn_error, mn_exception >>

Args(task, agents, agent_names, no_personas, personas) ==
    [task |-> task, agents |-> agents, agent_names |-> agent_names,
     no_personas |-> no_personas, personas |-> personas]

\* main() after parser.parse_args(), line 41
mn_Parsed(args) ==
    /\ mn_pc = "start"
    /\ mn_args = args
    /\ mn_available = << >>
    /\ mn_selected = << >>
    /\ mn_error = None
    /\ mn_exception = None
mn_Idle == mn_Parsed(Args(Task(0, TRUE), 0, << >>, FALSE, "none"))

\* print(json.dumps({"error": ...})); sys.exit(1)
mn_Exit(error) ==
    /\ mn_pc' = "exited"
    /\ mn_error' = error

\* lines 43-46
MainValidates ==
    /\ mn_pc = "start"
    /\ IF validate_input(mn_args.task) /= None
       THEN mn_Exit(validate_input(mn_args.task))
       ELSE mn_pc' = "validated" /\ mn_error' = mn_error
    /\ UNCHANGED << mn_args, mn_available, mn_selected, mn_exception >>

\* lines 48-58
MainParsesPersonas ==
    /\ mn_pc = "validated"
    /\ IF mn_args.personas = "object"
       THEN mn_Exit("Personas must be a JSON array")
       ELSE IF mn_args.personas = "invalid"
       THEN mn_Exit("Invalid personas JSON")
       ELSE mn_pc' = "parsed" /\ mn_error' = mn_error
    /\ UNCHANGED << mn_args, mn_available, mn_selected, mn_exception >>

\* lines 61-69
MainGetsAvailable(available) ==
    /\ mn_pc = "parsed"
    /\ mn_available' = available
    /\ IF available = << >>
       THEN mn_Exit("No agents available")
       ELSE IF Len(available) < 2
       THEN mn_Exit("Council requires at least 2 agents")
       ELSE mn_pc' = "available" /\ mn_error' = mn_error
    /\ UNCHANGED << mn_args, mn_selected, mn_exception >>

\* lines 72-84
MainSelects ==
    /\ mn_pc = "available"
    /\ IF mn_args.agent_names /= << >>
       THEN IF \E i \in DOMAIN mn_args.agent_names :
                  \A j \in DOMAIN mn_available :
                      mn_available[j] /= mn_args.agent_names[i]
            THEN mn_Exit("Unknown agents") /\ mn_selected' = mn_selected
            ELSE /\ mn_selected' = mn_args.agent_names
                 /\ mn_pc' = "selected" /\ mn_error' = mn_error
       ELSE LET all == IF mn_args.agents > 0 THEN mn_args.agents
                       ELSE Len(mn_available)
                num_agents == IF all < Len(mn_available) THEN all
                              ELSE Len(mn_available)
            IN /\ mn_selected' = SubSeq(mn_available, 1, num_agents)
               /\ mn_pc' = "selected" /\ mn_error' = mn_error
    /\ UNCHANGED << mn_args, mn_available, mn_exception >>

\* lines 92-104: the members are instantiated, CouncilMode is constructed
\* and its run() is called
MainConstructsAndRuns ==
    /\ mn_pc = "selected"
    /\ LET raised == CouncilMode_init(main_keywords, mn_selected)
       IN /\ mn_exception' = raised
          /\ mn_pc' = IF raised /= None THEN "raised" ELSE "run_called"
    /\ UNCHANGED << mn_args, mn_available, mn_selected, mn_error >>

\* --------------------------------------------------------- specifications
engine_vars == << dl_vars, db_vars, co_vars >>
lib_vars == << pj_vars, bk_vars, rs_vars, rn_vars, ps_vars, rg_vars, mn_vars >>
vars == << engine_vars, lib_vars >>

\* The member lists explored: up to MaxMembers members with distinct names,
\* and fewer than MaxMembers members of which the first two are instances of
\* the same backend.
MemberLists ==
    { [i \in 1..n |-> MemberNames[i]] : n \in 2..MaxMembers }
        \cup { [i \in 1..n |-> IF i = 1 THEN MemberNames[2] ELSE MemberNames[i]] :
                  n \in 2..(MaxMembers - 1) }

dl_Idle == dl_Constructed(1)
db_Idle == db_Constructed(1)
co_Idle == co_Constructed(<< MemberNames[1], MemberNames[2] >>, 1)
engines_Idle == dl_Idle /\ db_Idle /\ co_Idle
\* every component but the named one is idle
lib_Idle_except(component) ==
    /\ IF component = "pj" THEN TRUE ELSE pj_Idle
    /\ IF component = "bk" THEN TRUE ELSE bk_Idle
    /\ IF component = "rs" THEN TRUE ELSE rs_Idle
    /\ IF component = "rn" THEN TRUE ELSE rn_Idle
    /\ IF component = "ps" THEN TRUE ELSE ps_Idle
    /\ IF component = "rg" THEN TRUE ELSE rg_Imported
    /\ IF component = "mn" THEN TRUE ELSE mn_Idle
lib_Idle == lib_Idle_except("none")
\* what the actions of one component leave unchanged
pj_frame == << engine_vars, bk_vars, rs_vars, rn_vars, ps_vars, rg_vars, mn_vars >>
bk_frame == << engine_vars, pj_vars, rs_vars, rn_vars, ps_vars, rg_vars, mn_vars >>
rs_frame == << engine_vars, pj_vars, bk_vars, rn_vars, ps_vars, rg_vars, mn_vars >>
rn_dl_frame == << db_vars, co_vars, pj_vars, bk_vars, rs_vars, ps_vars, rg_vars, mn_vars >>
rn_db_frame == << dl_vars, co_vars, pj_vars, bk_vars, rs_vars, ps_vars, rg_vars, mn_vars >>
ps_frame == << engine_vars, pj_vars, bk_vars, rs_vars, rn_vars, rg_vars, mn_vars >>
rg_frame == << engine_vars, pj_vars, bk_vars, rs_vars, rn_vars, ps_vars, mn_vars >>
mn_frame == << engine_vars, pj_vars, bk_vars, rs_vars, rn_vars, ps_vars, rg_vars >>

\* DeliberationMode runs once; the other engines are constructed and idle.
InitDeliberation ==
    /\ \E max_rounds \in 1..MaxRounds : dl_Constructed(max_rounds)
    /\ db_Idle
    /\ co_Idle
    /\ lib_Idle

NextDeliberation ==
    \/ DeliberationRun /\ UNCHANGED << db_vars, co_vars, lib_vars >>
    \/ \E resp \in ProducerResponses :
          ProducerInitialReturns(resp) /\ UNCHANGED << db_vars, co_vars, lib_vars >>
    \/ \E resp \in ReviewerResponses :
          ReviewerReturns(resp) /\ UNCHANGED << db_vars, co_vars, lib_vars >>
    \/ \E resp \in ProducerResponses :
          ProducerReturns(resp) /\ UNCHANGED << db_vars, co_vars, lib_vars >>

SpecDeliberation == InitDeliberation /\ [][NextDeliberation]_vars

\* DebateMode runs once; the other engines are constructed and idle.
InitDebate ==
    /\ \E max_rounds \in 1..MaxDebateRounds : db_Constructed(max_rounds)
    /\ dl_Idle
    /\ co_Idle
    /\ lib_Idle

NextDebate ==
    \/ DebateRun /\ UNCHANGED << dl_vars, co_vars, lib_vars >>
    \/ \E p \in Positions : OpeningInvoke(p) /\ UNCHANGED << dl_vars, co_vars, lib_vars >>
    \/ \E p \in Positions, resp \in DebaterResponses :
          OpeningReturns(p, resp) /\ UNCHANGED << dl_vars, co_vars, lib_vars >>
    \/ OpeningsGathered /\ UNCHANGED << dl_vars, co_vars, lib_vars >>
    \/ \E resp \in DebaterResponses :
          ProRebuttalReturns(resp) /\ UNCHANGED << dl_vars, co_vars, lib_vars >>
    \/ \E resp \in DebaterResponses :
          ConRebuttalReturns(resp) /\ UNCHANGED << dl_vars, co_vars, lib_vars >>
    \/ \E resp \in JudgeResponses :
          JudgeReturns(resp) /\ UNCHANGED << dl_vars, co_vars, lib_vars >>

SpecDebate == InitDebate /\ [][NextDebate]_vars

\* CouncilMode runs once; the other engines are constructed and idle.
InitCouncil ==
    /\ \E members \in MemberLists, max_concurrent \in 1..MaxConcurrent :
          co_Constructed(members, max_concurrent)
    /\ dl_Idle
    /\ db_Idle
    /\ lib_Idle

NextCouncil ==
    \/ CouncilRun /\ UNCHANGED << dl_vars, db_vars, lib_vars >>
    \/ \E m \in Members : TaskStarts(m) /\ UNCHANGED << dl_vars, db_vars, lib_vars >>
    \/ \E m \in Members : TaskResumes(m) /\ UNCHANGED << dl_vars, db_vars, lib_vars >>
    \/ \E m \in Members, resp \in OpinionResponses :
          OpinionReturns(m, resp) /\ UNCHANGED << dl_vars, db_vars, lib_vars >>
    \/ GatherRaises /\ UNCHANGED << dl_vars, db_vars, lib_vars >>
    \/ OpinionsGathered /\ UNCHANGED << dl_vars, db_vars, lib_vars >>
    \/ \E m \in Members, resp \in RankingResponses :
          RankingReturns(m, resp) /\ UNCHANGED << dl_vars, db_vars, lib_vars >>
    \/ RankingsGathered /\ UNCHANGED << dl_vars, db_vars, lib_vars >>
    \/ \E resp \in SynthesisResponses :
          ChairmanReturns(resp) /\ UNCHANGED << dl_vars, db_vars, lib_vars >>

SpecCouncil == InitCouncil /\ [][NextCouncil]_vars

\* _parse_json of one engine is called once on one reply text.
InitParseJson ==
    /\ \E engine \in Engines, content \in Texts : pj_Called(engine, content)
    /\ engines_Idle
    /\ lib_Idle_except("pj")

NextParseJson ==
    \/ DeliberationParses /\ UNCHANGED pj_frame
    \/ DebateParses /\ UNCHANGED pj_frame
    \/ CouncilParses /\ UNCHANGED pj_frame

SpecParseJson == InitParseJson /\ [][NextParseJson]_vars

\* One backend's invoke is called once, with or without a status callback.
InitBackend ==
    /\ \E backend \in Backends, callback \in BOOLEAN : bk_Invoked(backend, callback)
    /\ engines_Idle
    /\ lib_Idle_except("bk")

NextBackend ==
    \/ Spawned /\ UNCHANGED bk_frame
    \/ SpawnFindsNoCli /\ UNCHANGED bk_frame
    \/ \E message \in OtherFailures :
          SubprocessFails(message) /\ UNCHANGED bk_frame
    \/ PromptWritten /\ UNCHANGED bk_frame
    \/ \E line \in LineKinds : LineRead(line) /\ UNCHANGED bk_frame
    \/ EndOfOutput /\ UNCHANGED bk_frame
    \/ ReadlineTimesOut /\ UNCHANGED bk_frame
    \/ \E return_code \in ReturnCodes :
          ProcessExits(return_code) /\ UNCHANGED bk_frame
    \/ \E lines \in Outputs, return_code \in ReturnCodes :
          Communicated(lines, return_code) /\ UNCHANGED bk_frame
    \/ CommunicateTimesOut /\ UNCHANGED bk_frame

SpecBackend == InitBackend /\ [][NextBackend]_vars

\* One instance of DeliberationMode or of DebateMode is run up to MaxRuns
\* times, each run() called when the one before is over.
InitRuns ==
    /\ \E max_rounds \in 1..MaxRunRounds :
          dl_Constructed(max_rounds) /\ db_Constructed(max_rounds)
    /\ co_Idle
    /\ lib_Idle_except("rn")
    /\ rn_Idle

NextRuns ==
    \/ db_pc = "constructed" /\ DeliberationRun /\ rn_FirstRun /\ UNCHANGED rn_dl_frame
    \/ DeliberationRunAgain /\ UNCHANGED rn_dl_frame
    \/ \E resp \in ProducerResponses :
          ProducerInitialReturns(resp) /\ UNCHANGED rn_dl_frame /\ rn_Step
    \/ \E resp \in ReviewerResponses :
          ReviewerReturns(resp) /\ UNCHANGED rn_dl_frame /\ rn_Step
    \/ \E resp \in ProducerResponses :
          ProducerReturns(resp) /\ UNCHANGED rn_dl_frame /\ rn_Step
    \/ dl_pc = "constructed" /\ DebateRun /\ rn_FirstRun /\ UNCHANGED rn_db_frame
    \/ DebateRunAgain /\ UNCHANGED rn_db_frame
    \/ \E p \in Positions : OpeningInvoke(p) /\ UNCHANGED rn_db_frame /\ rn_Step
    \/ \E p \in Positions, resp \in DebaterResponses :
          OpeningReturns(p, resp) /\ UNCHANGED rn_db_frame /\ rn_Step
    \/ OpeningsGathered /\ UNCHANGED rn_db_frame /\ rn_Step
    \/ \E resp \in DebaterResponses :
          ProRebuttalReturns(resp) /\ UNCHANGED rn_db_frame /\ rn_Step
    \/ \E resp \in DebaterResponses :
          ConRebuttalReturns(resp) /\ UNCHANGED rn_db_frame /\ rn_Step
    \/ \E resp \in JudgeResponses :
          JudgeReturns(resp) /\ UNCHANGED rn_db_frame /\ rn_Step

SpecRuns == InitRuns /\ [][NextRuns]_vars

\* infer_personas is called once on one task for one number of agents.
InitPersonas ==
    /\ \E task \in Tasks, num_agents \in -1..MaxAgents : ps_Called(task, num_agents)
    /\ engines_Idle
    /\ lib_Idle_except("ps")

NextPersonas ==
    \/ InferPersonas /\ UNCHANGED ps_frame

SpecPersonas == InitPersonas /\ [][NextPersonas]_vars

\* run_council.main runs once on a parsed command line.
InitMain ==
    /\ \E task \in DriverTasks, agents \in 0..MaxAgents,
          agent_names \in AgentNameLists, no_personas \in BOOLEAN,
          personas \in PersonasArgs :
          mn_Parsed(Args(task, agents, agent_names, no_personas, personas))
    /\ engines_Idle
    /\ lib_Idle_except("mn")

NextMain ==
    \/ MainValidates /\ UNCHANGED mn_frame
    \/ MainParsesPersonas /\ UNCHANGED mn_frame
    \/ \E available \in AvailableLists :
          MainGetsAvailable(available) /\ UNCHANGED mn_frame
    \/ MainSelects /\ UNCHANGED mn_frame
    \/ MainConstructsAndRuns /\ UNCHANGED mn_frame

SpecMain == InitMain /\ [][NextMain]_vars

\* The registry module is imported and up to MaxCalls calls are made to it.
InitRegistry ==
    /\ rg_Imported
    /\ engines_Idle
    /\ lib_Idle_except("rg")

NextRegistry ==
    \/ \E name \in AgentNames, class \in Classes :
          RegisterAgent(name, class) /\ UNCHANGED rg_frame
    \/ \E name \in AgentNames : GetAgent(name) /\ UNCHANGED rg_frame

SpecRegistry == InitRegistry /\ [][NextRegistry]_vars

\* An AgentResponse is built and its properties are read.
InitResponse ==
    /\ \E content \in ResponseContents, metadata \in Metadatas :
          rs_Built(content, metadata)
    /\ engines_Idle
    /\ lib_Idle_except("rs")

NextResponse ==
    \/ PropertiesRead /\ UNCHANGED rs_frame

SpecResponse == InitResponse /\ [][NextResponse]_vars

\* ------------------------------------------------ DeliberationMode claims
dl_Terminated == dl_pc \in {"returned", "raised"}
dl_Reviews == { i \in DOMAIN dl_history : dl_history[i].type = "review" }
\* the agreement_level a completed review carries, Null when it carries none
ReviewLevel(e) == Get_agreement_level(e.parsed, Null)
IsConsensusReview(e) ==
    /\ e.type = "review"
    /\ "agreement_level" \in e.parsed.keys
    /\ e.parsed.agreement_level >= consensus_threshold
dl_LastCall == dl_calls[Len(dl_calls)]
dl_FirstTurnFailed ==
    Len(dl_calls) >= 1 /\ dl_calls[1].returned /\ is_error(dl_calls[1].result)
dl_FirstTurnSucceeded ==
    Len(dl_calls) >= 1 /\ dl_calls[1].returned /\ ~is_error(dl_calls[1].result)

dl_Exhausted ==
    /\ dl_Terminated
    /\ dl_FirstTurnSucceeded
    /\ \A i \in dl_Reviews : ~IsConsensusReview(dl_history[i])
LastReviewLevel ==
    IF dl_Reviews = {} THEN Null
    ELSE ReviewLevel(dl_history[CHOOSE i \in dl_Reviews : \A j \in dl_Reviews : j <= i])
C2_ExhaustionReturnsLastLevel ==
    dl_Exhausted =>
        /\ dl_pc = "returned"
        /\ dl_result = DeliberationResult("max_rounds", dl_max_rounds,
                                          LastReviewLevel, None)

\* C3: the text submitted for review in any round is the content of the most
\* recent producer turn that did not error, never an error placeholder.
ProducerTurnsBefore(k) ==
    { j \in 1..(k-1) : /\ dl_calls[j].agent = "producer"
                       /\ dl_calls[j].returned
                       /\ ~is_error(dl_calls[j].result) }
C3_ReviewedTextIsLastGoodProducerTurn ==
    \A k \in DOMAIN dl_calls :
        dl_calls[k].agent = "reviewer" =>
            /\ ~IsPlaceholder(dl_calls[k].response)
            /\ ProducerTurnsBefore(k) /= {}
            /\ LET j == CHOOSE j \in ProducerTurnsBefore(k) :
                            \A h \in ProducerTurnsBefore(k) : h <= j
               IN dl_calls[k].response = dl_calls[j].result.content

\* C5: for max_rounds >= 2, if every review returned has agreement_level
\* below consensus_threshold, run terminates with status "max_rounds" and
\* rounds = max_rounds.
C5_NoConsensusEndsAtMaxRounds ==
    ( /\ dl_Terminated
      /\ dl_max_rounds >= 2
      /\ dl_FirstTurnSucceeded
      /\ \A i \in dl_Reviews :
            /\ "agreement_level" \in dl_history[i].parsed.keys
            /\ dl_history[i].parsed.agreement_level < consensus_threshold )
    => /\ dl_pc = "returned"
       /\ dl_result.status = "max_rounds"
       /\ dl_result.rounds = dl_max_rounds

\* C6: a reviewer error in round k (2 <= k < max_rounds) never ends the
\* session: the reviewer is invoked again in round k+1, the failed review
\* leaves no history entry, and the final status is "consensus" or
\* "max_rounds", never "error".
C6_ReviewerErrorIsRecovered ==
    \A k \in DOMAIN dl_calls :
        ( /\ dl_calls[k].agent = "reviewer"
          /\ dl_calls[k].returned
          /\ is_error(dl_calls[k].result)
          /\ dl_calls[k].round >= 2
          /\ dl_calls[k].round < dl_max_rounds )
        => /\ \E h \in DOMAIN dl_calls :
                /\ h > k
                /\ dl_calls[h].agent = "reviewer"
                /\ dl_calls[h].round = dl_calls[k].round + 1
           /\ \A i \in dl_Reviews : dl_history[i].round /= dl_calls[k].round
           /\ dl_Terminated =>
                /\ dl_pc = "returned"
                /\ dl_result.status \in {"consensus", "max_rounds"}

\* C4: if the producer's first invocation returns an error response, run
\* returns status "error", rounds = 1, agreement_level null and error equal
\* to the producer's error message; the history stays empty and the producer's
\* first call is the only invocation (the reviewer is never invoked).
C4_InitialProducerErrorIsFatal ==
    dl_FirstTurnFailed =>
        /\ dl_pc = "returned"
        /\ dl_result = DeliberationResult("error", 1, Null,
                                          dl_calls[1].result.error)
        /\ dl_history = << >>
        /\ Len(dl_calls) = 1

\* C4 witness: the run ended by the producer's cli_not_found error.
C4_Witness ==
    /\ dl_pc = "returned"
    /\ dl_result.status = "error"
    /\ dl_result.error = "cli_not_found"
    /\ dl_max_rounds >= 2

\* ------------------------------------------------------ DebateMode claims
db_Rebuttals == { inv \in db_inflight : inv.kind = "rebuttal" }
db_IsErrorArgument(a) ==
    \E e \in ErrorResponses : a.argument = ErrorText(e.error)

\* C7: for max_rounds N >= 1 a completed run has recorded exactly 2N
\* arguments with round numbers 1,1,2,2,...,N,N and positions alternating
\* pro, con, starting with pro.
C7_RoundNumbersPairUp ==
    db_pc = "returned" =>
        /\ Len(db_arguments) = 2 * db_max_rounds
        /\ \A i \in DOMAIN db_arguments :
              /\ db_arguments[i].round_num = (i + 1) \div 2
              /\ db_arguments[i].position = IF i % 2 = 1 THEN "pro" ELSE "con"

C9_RebuttalsAreSequential ==
    /\ Cardinality(db_Rebuttals) <= 1
    /\ \A inv \in db_Rebuttals :
          LET n == Len(db_arguments) IN
          IF inv.position = "pro"
          THEN /\ \E i \in DOMAIN db_arguments : db_arguments[i].position = "con"
               /\ LET last == Max({ i \in DOMAIN db_arguments :
                                        db_arguments[i].position = "con" })
                  IN /\ inv.opponent_arg = db_arguments[last]
                     /\ last = n
          ELSE /\ n >= 3
               /\ n = 2 * db_round_num - 1
               /\ db_arguments[n].position = "pro"
               /\ inv.opponent_arg = db_arguments[n]

\* C9 witness: in round 3 con is rebutting pro's round-3 rebuttal, after con's
\* own round-2 rebuttal was recorded.
C9_Witness ==
    /\ db_round_num = 3
    /\ \E inv \in db_Rebuttals :
          /\ inv.position = "con"
          /\ inv.opponent_arg = db_arguments[5]
    /\ db_arguments[4].argument /= db_arguments[2].argument

\* ----------------------------------------------------- CouncilMode claims
\* C10: with max_concurrent = K the number of member invocations in flight
\* never exceeds K, in Stage 1 and in Stage 2, for any number of members and
\* any completion order.
C10_InFlightAtMostMaxConcurrent ==
    Cardinality(InFlight) <= co_max_concurrent

\* C10 witness: in Stage 2 of a council with more members than permits, every
\* permit is in use and a member is queued behind them.
C10_Witness ==
    /\ co_pc = "ranking"
    /\ Len(co_members) > co_max_concurrent
    /\ co_max_concurrent = 2
    /\ Cardinality(InFlight) = co_max_concurrent
    /\ \E m \in Members : co_task[m] = "waiting"

\* what the model expects of the opinions and rankings once they are gathered
OpinionsCollected == co_pc \in {"ranking", "await_chairman", "returned"}
RankingsCollected == co_pc \in {"await_chairman", "returned"}

\* C11: whatever the order in which the member invocations complete, the
\* i-th opinion and the i-th ranking collected by run() are the ones made
\* from the reply of the i-th member of the list.
C11_ResultsFollowMemberOrder ==
    /\ OpinionsCollected =>
          \A i \in Members :
             co_gathered_opinions[i] = Opinion(co_members[i], co_opinion_replies[i])
    /\ RankingsCollected =>
          \A i \in Members :
             /\ co_gathered_rankings[i] = Ranking(co_ranking_replies[i])
             /\ co_rankings[i] =
                   deanonymize_ranking(Ranking(co_ranking_replies[i]),
                                       reverse_anon_map(co_anon_map))

\* C11 witness: the rankings are collected after a Stage 2 in which a member
\* completed before an earlier one, and the first and last members gave
\* different opinions and different rankings.
C11_Witness ==
    /\ co_pc = "await_chairman"
    /\ co_out_of_order
    /\ co_opinion_replies[1] /= co_opinion_replies[Len(co_members)]
    /\ co_gathered_rankings[1] /= co_gathered_rankings[Len(co_members)]
    /\ co_rankings[1].rankings /= co_rankings[Len(co_members)].rankings

\* the members that hold a permit: their invocation is in flight, or release
\* handed them the permit and they have yet to resume and invoke
Admitted == { m \in Members : co_task[m] \in {"inflight", "woken"} }
Stage2Starts == co_pc = "ranking" /\ \A m \in Members : co_task[m] = "pending"

\* C12 as stated: whenever no member invocation is in flight, all K permits
\* of the admission gate are available.
C12_GateFullWhenNothingInFlight ==
    InFlight = {} => co_semaphore.value = co_max_concurrent

\* C12 amended: the permits available and the members admitted always add up
\* to K, whether invocations ended with a response, an error response or an
\* exception; so all K permits are available whenever no invocation is in
\* flight and no queued member has been handed a permit, and Stage 2 starts
\* with a full gate and an empty queue.
C12_GateFullWhenNobodyAdmitted ==
    /\ co_semaphore.value + Cardinality(Admitted) = co_max_concurrent
    /\ Admitted = {} => co_semaphore.value = co_max_concurrent
    /\ Stage2Starts =>
          /\ co_semaphore.value = co_max_concurrent
          /\ co_semaphore.waiters = << >>

\* C12 witness: Stage 2 starts with a full gate after a Stage 1 in which
\* members queued for a permit and one invocation ended with an error
\* response.
C12_Witness ==
    /\ Stage2Starts
    /\ Len(co_members) > co_max_concurrent
    /\ \E m \in Members : is_error(co_opinion_replies[m])
    /\ co_semaphore.value = co_max_concurrent

\* the members whose Stage 1 invocation returned, with an error response or
\* with a reply
Stage1Errored == { m \in Members : co_opinion_replies[m] /= NoResponse
                                     /\ is_error(co_opinion_replies[m]) }
Stage1Replied == { m \in Members : co_opinion_replies[m] /= NoResponse
                                     /\ ~is_error(co_opinion_replies[m]) }
\* the members whose reply carries a confidence CouncilOpinion rejects
Stage1Invalid ==
    { m \in Stage1Replied :
         ~opinion_validates(Opinion(co_members[m], co_opinion_replies[m])) }

\* C13: a member whose Stage 1 invocation returns an error response gets the
\* opinion "[Error: <message>]" with confidence 0.0 and no key points; the
\* opinions of the other members are what their own replies make them; the
\* error does not make run() raise, and a run that returns has collected a
\* ranking from every member, invoked the chairman once and holds a
\* synthesis. (run() raises only on a reply CouncilOpinion rejects or on a
\* Stage 2 reply that is JSON but no object.)
C13_OpinionErrorIsRecovered ==
    /\ \A m \in Stage1Errored :
          /\ co_opinion_results[m] =
                CouncilOpinion(co_members[m],
                    ErrorText(co_opinion_replies[m].error), 0, << >>)
          /\ OpinionsCollected => co_gathered_opinions[m] = co_opinion_results[m]
    /\ \A m \in Stage1Replied \ Stage1Invalid :
          LET parsed == co_parse_json(co_opinion_replies[m].content)
          IN /\ co_opinion_results[m].agent_id = co_members[m]
             /\ co_opinion_results[m].opinion \in
                   {parsed.opinion, co_opinion_replies[m].content}
             /\ co_opinion_results[m].confidence \in {parsed.confidence, 70}
             /\ co_opinion_results[m].key_points = parsed.key_points
    /\ co_exception = "ValidationError" => Stage1Invalid /= {}
    /\ co_exception = "AttributeError" =>
          \E m \in Members : ~Ranking(co_ranking_replies[m]).is_dict
    /\ co_pc = "returned" =>
          /\ Len(co_rankings) = Len(co_members)
          /\ \A m \in Members : co_ranking_replies[m] /= NoResponse
          /\ co_chairman_calls = 1
          /\ co_synthesis /= NoSynthesis

\* C13 witness: run() returned a synthesis after a Stage 1 in which one
\* member returned an error response and another a valid opinion.
C13_Witness ==
    /\ co_pc = "returned"
    /\ Stage1Errored /= {}
    /\ \E m \in Stage1Replied : co_opinion_results[m].confidence = 90
    /\ co_synthesis.final_answer = "F"
    /\ \E m \in Members : co_rankings[m].rankings /= EmptyDict

\* the members whose Stage 2 invocation returned an error response, and those
\* whose reply holds no JSON object
Stage2Errored == { m \in Members : co_ranking_replies[m] /= NoResponse
                                     /\ is_error(co_ranking_replies[m]) }
Stage2Unparseable ==
    { m \in Members : /\ co_ranking_replies[m] /= NoResponse
                      /\ ~is_error(co_ranking_replies[m])
                      /\ co_parse_json(co_ranking_replies[m].content).keys = {} }
\* run() is past the gather of Stage 2
Stage2Over == /\ co_pc \in {"await_chairman", "returned", "raised"}
              /\ \A m \in Members : co_ranking_replies[m] /= NoResponse
\* a list without its m-th element
Without(list, m) ==
    [i \in 1..(Len(list) - 1) |-> IF i < m THEN list[i] ELSE list[i + 1]]

\* C14: a member whose Stage 2 invocation errors, or whose reply holds no
\* JSON object, yields a PeerRanking with empty rankings and empty reasoning,
\* and the aggregate rankings are those of the list without that PeerRanking.
C14_BlankRankingCountsForNothing ==
    Stage2Over =>
       \A m \in Stage2Errored \cup Stage2Unparseable :
          /\ m \in DOMAIN co_rankings
          /\ co_rankings[m].rankings = EmptyDict
          /\ co_rankings[m].reasoning = EmptyDict
          /\ get_aggregate_rankings(co_rankings) =
                get_aggregate_rankings(Without(co_rankings, m))

\* C15: when the chairman's invocation returns an error response, run()
\* still returns; the synthesis has final_answer "[Error: <message>]",
\* consensus_level 0.0 and no dissenting views or key insights, and the
\* opinions and rankings of the result are the ones collected in Stage 1 and
\* Stage 2.
C15_ChairmanErrorIsRecovered ==
    /\ co_chairman_reply /= NoResponse => co_pc = "returned"
    /\ (co_chairman_reply /= NoResponse /\ is_error(co_chairman_reply)) =>
          /\ co_synthesis =
                CouncilSynthesis(co_members[1],
                    ErrorText(co_chairman_reply.error), 0, << >>, << >>)
          /\ co_opinions =
                StoreOpinions(<< >>, co_members, co_gathered_opinions)
          /\ co_rankings =
                [m \in Members |->
                    deanonymize_ranking(co_gathered_rankings[m],
                                        reverse_anon_map(co_anon_map))]
          /\ \A m \in Members :
                co_gathered_opinions[m] =
                    Opinion(co_members[m], co_opinion_replies[m])

\* C15 witness: run() returned after the chairman's invocation failed, with
\* an opinion of confidence 0.9 and a non-empty ranking in the result.
C15_Witness ==
    /\ co_pc = "returned"
    /\ is_error(co_chairman_reply)
    /\ co_synthesis.final_answer = "[Error: cli_not_found]"
    /\ \E i \in DOMAIN co_opinions : co_opinions[i].confidence = 90
    /\ \E m \in Members : co_rankings[m].rankings /= EmptyDict

\* ------------------------------------------------- DebateMode claims (2)
\* C16: when the judge's invocation returns an error response, run() still
\* returns; the judgment has winner "pro", score_pro = score_con = 0.5,
\* reasoning "[Error: <message>]" and no key factors, and the result holds
\* all 2 * max_rounds arguments, pro and con in turn, ending with the last
\* argument of either side.
C16_JudgeErrorIsRecovered ==
    /\ db_judge_reply /= NoResponse => db_pc = "returned"
    /\ (db_judge_reply /= NoResponse /\ is_error(db_judge_reply)) =>
          /\ db_judgment =
                DebateJudgment(judge, "pro", ErrorText(db_judge_reply.error),
                               50, 50, << >>)
          /\ Len(db_arguments) = 2 * db_max_rounds
          /\ \A i \in DOMAIN db_arguments :
                db_arguments[i].position = IF i % 2 = 1 THEN "pro" ELSE "con"
          /\ db_arguments[Len(db_arguments) - 1] = db_pro_arg
          /\ db_arguments[Len(db_arguments)] = db_con_arg

\* C16 witness: a debate of three rounds returned after the judge's
\* invocation failed.
C16_Witness ==
    /\ db_pc = "returned"
    /\ is_error(db_judge_reply)
    /\ db_judgment.reasoning = "[Error: timeout]"
    /\ Len(db_arguments) = 6

\* ------------------------------------------------- CouncilMode claims (2)
\* the label the anonymization map gives member i, and the member name its
\* reverse gives a label
LabelOf(i) == dict_get(co_anon_map, co_members[i], None)
NameOf(label) == dict_get(reverse_anon_map(co_anon_map), label, None)

\* C17: for any list of council members the anonymization map gives the
\* i-th member the i-th letter, gives different members different labels,
\* and the reversed map sends every label back to the member it was assigned
\* to, so that de-anonymizing a member's label recovers the member's id.
C17_AnonymizationIsBijective ==
    OpinionsCollected =>
       /\ \A i \in Members : LabelOf(i) = Label(i)
       /\ \A i, j \in Members : i /= j => LabelOf(i) /= LabelOf(j)
       /\ \A i \in Members : NameOf(Label(i)) = co_members[i]
       /\ \A i \in Members :
             deanonymize(<< << LabelOf(i), 1 >> >>,
                         reverse_anon_map(co_anon_map))
                 = << << co_members[i], 1 >> >>

MemberIds == { co_members[i] : i \in Members }

\* C18: after de-anonymization every key of the rankings and reasoning maps
\* of every PeerRanking of the result is the id of a council member,
\* whatever labels the reviewers wrote in their replies.
C18_RankingKeysAreMemberIds ==
    RankingsCollected =>
       \A m \in Members :
          /\ dict_keys(co_rankings[m].rankings) \subseteq MemberIds
          /\ dict_keys(co_rankings[m].reasoning) \subseteq MemberIds

\* the ids that received a rank, the members that ranked an id and the sum
\* of the ranks they gave it, read off self.rankings
RankedIds == UNION { dict_keys(co_rankings[m].rankings) : m \in DOMAIN co_rankings }
RankersOf(id) ==
    { m \in DOMAIN co_rankings : id \in dict_keys(co_rankings[m].rankings) }
RECURSIVE RankSum(_, _)
RankSum(id, rankers) ==
    IF rankers = {} THEN 0
    ELSE LET m == CHOOSE r \in rankers : TRUE
         IN dict_get(co_rankings[m].rankings, id, 0) + RankSum(id, rankers \ {m})
\* avg is the arithmetic mean of the ranks id received
IsMeanOf(avg, id) ==
    /\ avg.den > 0
    /\ avg.num * Cardinality(RankersOf(id)) = RankSum(id, RankersOf(id)) * avg.den
\* id1's mean rank is at most id2's
MeanLe(id1, id2) ==
    RankSum(id1, RankersOf(id1)) * Cardinality(RankersOf(id2))
        <= RankSum(id2, RankersOf(id2)) * Cardinality(RankersOf(id1))
\* the aggregate maps exactly the ranked ids, each to its mean
AggregateHoldsMeans ==
    LET aggregate == get_aggregate_rankings(co_rankings)
    IN /\ { aggregate[i][1] : i \in DOMAIN aggregate } = RankedIds
       /\ Len(aggregate) = Cardinality(RankedIds)
       /\ \A i \in DOMAIN aggregate : IsMeanOf(aggregate[i][2], aggregate[i][1])
\* the table lists exactly the ranked ids
TableListsRankedIds ==
    LET lines == co_rankings_summary.lines
    IN /\ { lines[i][1] : i \in DOMAIN lines } = RankedIds
       /\ Len(lines) = Cardinality(RankedIds)

\* C19 as stated: the aggregate ranking maps exactly the ids that received a
\* rank to the arithmetic mean of the ranks they received, and the table
\* shown to the chairman holds the same means, in ascending order.
C19_TableHoldsTheMeans ==
    RankingsCollected =>
       /\ AggregateHoldsMeans
       /\ TableListsRankedIds
       /\ LET lines == co_rankings_summary.lines
          IN /\ \A i \in DOMAIN lines :
                   IsMeanOf([num |-> lines[i][2], den |-> 10], lines[i][1])
             /\ \A i, j \in DOMAIN lines : i < j => lines[i][2] <= lines[j][2]

\* C19 amended: the aggregate ranking maps exactly the ids that received a
\* rank to the arithmetic mean of the ranks they received, and the table
\* shown to the chairman lists the same ids in ascending order of their
\* means, each mean rounded to one decimal place.
C19_TableHoldsTheRoundedMeans ==
    RankingsCollected =>
       /\ AggregateHoldsMeans
       /\ TableListsRankedIds
       /\ LET lines == co_rankings_summary.lines
          IN /\ \A i \in DOMAIN lines :
                   LET n == Cardinality(RankersOf(lines[i][1]))
                       d == 10 * RankSum(lines[i][1], RankersOf(lines[i][1]))
                              - lines[i][2] * n
                   IN 2 * d <= n /\ -2 * d <= n
             /\ \A i, j \in DOMAIN lines :
                   i < j => MeanLe(lines[i][1], lines[j][1])

\* C19 witness: three reviewers ranked; one id has the mean 4/3, shown as
\* 1.3, one id was ranked by a single reviewer, and the third member was
\* ranked by nobody.
C19_Witness ==
    /\ co_pc = "returned"
    /\ Len(co_members) = 3
    /\ \E i \in DOMAIN co_rankings_summary.lines :
          /\ co_rankings_summary.lines[i][2] = 13
          /\ Cardinality(RankersOf(co_rankings_summary.lines[i][1])) = 3
    /\ \E id \in RankedIds : Cardinality(RankersOf(id)) = 1
    /\ co_members[3] \notin RankedIds

\* C20: for any list of n >= 2 council members the result of run() holds
\* exactly n opinions, the i-th being the opinion of the i-th member, and
\* exactly n PeerRankings, one per member.
C20_OneOpinionAndRankingPerMember ==
    co_pc = "returned" =>
       /\ Len(co_opinions) = Len(co_members)
       /\ \A i \in Members :
             /\ i \in DOMAIN co_opinions
             /\ co_opinions[i].agent_id = co_members[i]
             /\ co_opinions[i] = Opinion(co_members[i], co_opinion_replies[i])
       /\ Len(co_rankings) = Len(co_members)
       /\ \A i \in Members :
             co_rankings[i] =
                 deanonymize_ranking(Ranking(co_ranking_replies[i]),
                                     reverse_anon_map(co_anon_map))

\* ------------------------------------------------- CouncilMode claims (3)
\* C21: CouncilMode.run never raises, whatever the members and the chairman
\* reply: no run ends with an exception leaving run() in place of a result.
C21_RunNeverRaises ==
    /\ co_pc /= "raised"
    /\ co_exception = None

\* ------------------------------------------------------ _parse_json claims
IsJsonObject(text) == text /= << >> /\ text[1] = "{" /\ json_loads(text).ok
\* the places of the JSON objects that stand in the text
ObjectsIn(text) ==
    { span \in (DOMAIN text) \X (DOMAIN text) :
          span[1] <= span[2] /\ IsJsonObject(SubSeq(text, span[1], span[2])) }
FirstObjectIn(text) ==
    LET span == CHOOSE s \in ObjectsIn(text) :
                    \A o \in ObjectsIn(text) : s[1] <= o[1]
    IN  SubSeq(text, span[1], span[2])
FallbackOf(engine) == IF engine = "deliberation" THEN NoneValue ELSE EmptyObject

\* C22: _parse_json of every engine returns the parsed object when the text
\* is a bare JSON object, otherwise the first balanced-brace JSON object
\* found in the text, otherwise the engine's empty fallback, and never a
\* value that is neither an object nor the fallback.
C22_ParseJsonGivesObjectOrFallback ==
    pj_pc = "returned" =>
        /\ pj_result.kind = "dict" \/ pj_result = FallbackOf(pj_engine)
        /\ IsJsonObject(pj_content) => pj_result = Value("dict", pj_content)
        /\ ~IsJsonObject(pj_content) /\ ObjectsIn(pj_content) /= {}
              => pj_result = Value("dict", FirstObjectIn(pj_content))
        /\ ObjectsIn(pj_content) = {} => pj_result = FallbackOf(pj_engine)

\* --------------------------------------------------------- backend claims
bk_ErrorKind == Response_error_message(bk_response)
\* the texts a bracketed placeholder of a backend can hold
PlaceholderTexts ==
    { "Timeout", "Empty response from Codex" } \cup OtherFailures
        \cup { cli_name(b) \o " CLI not found" : b \in Backends }
bk_IsPlaceholder ==
    \E text \in PlaceholderTexts : bk_response.content = "[Error: " \o text \o "]"

\* C23: invoke never raises for a timeout, a missing CLI or another failure
\* of the subprocess call: once any of them has happened the invocation ends
\* with a returned response whose metadata carries the error kind (timeout,
\* cli_not_found, or the exception's message) and whose content is a
\* bracketed "[Error: ...]" placeholder.
C23_FailureBecomesErrorResponse ==
    /\ bk_pc /= "raised"
    /\ bk_pc = "returned" /\ (bk_expired \/ bk_failure /= None) =>
          /\ Response_is_error(bk_response)
          /\ bk_IsPlaceholder
          /\ bk_failure = "FileNotFoundError" => bk_ErrorKind = "cli_not_found"
          /\ bk_failure \in OtherFailures => bk_ErrorKind = bk_failure
          /\ bk_expired /\ bk_failure = None => bk_ErrorKind = "timeout"

\* C24: whenever the timeout of an invocation expired, with or without a
\* status callback, the response invoke returns is an error response of
\* kind timeout.
C24_ExpiredTimeoutIsTimeoutError ==
    bk_pc = "returned" /\ bk_expired =>
        /\ Response_is_error(bk_response)
        /\ bk_ErrorKind = "timeout"

\* --------------------------------------------------- AgentResponse claims
rs_HasErrorKey == "error" \in dict_keys(rs_response.metadata)
rs_ErrorValue == dict_get(rs_response.metadata, "error", None)

\* C25 as stated: is_error is true exactly when the metadata map contains an
\* "error" key, whatever the content is, and error_message is then the
\* value stored under that key.
C25_IsErrorIffErrorKey ==
    rs_pc = "read" =>
        /\ rs_is_error <=> rs_HasErrorKey
        /\ rs_is_error => rs_error_message = rs_ErrorValue

\* C25 amended: is_error is true exactly when the metadata map holds a
\* value other than None under "error", whatever the content is (an "error"
\* key that holds None does not make an error); error_message is the value
\* stored under the key, None without one.
C25_IsErrorIffErrorValue ==
    rs_pc = "read" =>
        /\ rs_is_error <=> (rs_HasErrorKey /\ rs_ErrorValue /= None)
        /\ rs_HasErrorKey => rs_error_message = rs_ErrorValue
        /\ ~rs_HasErrorKey => rs_error_message = None

\* C25 witness: the properties were read of a response whose content is
\* ordinary text and whose metadata holds the empty string under "error",
\* after other keys: it is an error.
C25_Witness ==
    /\ rs_pc = "read"
    /\ rs_response.content = "text"
    /\ rs_HasErrorKey /\ rs_ErrorValue = ""
    /\ "model" \in dict_keys(rs_response.metadata)
    /\ rs_is_error

\* ------------------------------------------------- session record claims
\* C26: for any sequence of run() calls on one DebateMode or
\* DeliberationMode instance, every record returned holds only the turns or
\* arguments of its own run (it started empty when the run started), and a
\* record already returned still shows what it showed when it was returned.
C26_RecordsAreFreshSnapshots ==
    \A i \in DOMAIN rn_records :
        /\ rn_records[i].start = 0
        /\ holds(rn_records[i]) = rn_records[i].returned_with

\* ---------------------------------------------------------- persona claims
ps_Scored == { TASK_KEYWORDS[i].persona : i \in
                 { j \in DOMAIN TASK_KEYWORDS :
                       score_persona(ps_task, TASK_KEYWORDS[j].keywords) > 0 } }

\* C27: for every task and every num_agents, no two entries of the list
\* infer_personas returns are the same persona.
C27_NoDuplicatePersonas ==
    ps_pc = "returned" =>
        \A i, j \in DOMAIN ps_personas :
            ps_personas[i] = ps_personas[j] => i = j

\* C27 witness: a persona that scored on the task is also a default, the
\* list was filled up from the defaults, and the call returned.
C27_Witness ==
    /\ ps_pc = "returned"
    /\ CODE_QUALITY_REVIEWER \in ps_Scored
    /\ Cardinality(ps_Scored) < ps_num_agents
    /\ Len(ps_personas) > Cardinality(ps_Scored)

\* C28: for every task and every num_agents >= 3, the Devil's Advocate is
\* among the first num_agents entries of the list infer_personas returns,
\* also when num_agents or more personas scored above zero.
C28_DevilsAdvocateIncluded ==
    ps_pc = "returned" /\ ps_num_agents >= 3 =>
        \E i \in DOMAIN ps_personas :
            i <= ps_num_agents /\ ps_personas[i] = DEVIL_ADVOCATE

\* C28 witness: more personas scored above zero than there are agents, 3 or
\* more, and the call returned.
C28_Witness ==
    /\ ps_pc = "returned"
    /\ ps_num_agents >= 3
    /\ Cardinality(ps_Scored) > ps_num_agents

\* --------------------------------------------------------- registry claims
rg_Registered(name) == \E i \in DOMAIN rg_accepted : rg_accepted[i][1] = name
\* the class most recently registered under name
rg_Latest(name) ==
    LET last == Max({ i \in DOMAIN rg_accepted : rg_accepted[i][1] = name })
    IN  rg_accepted[last][2]
rg_RejectedLeavesRegistry ==
    rg_last.op = "register_agent" /\ rg_last.outcome = "TypeError" =>
        /\ ~issubclass_AgentBackend(rg_last.class)
        /\ rg_AGENTS = rg_last.before
rg_ValueErrorIffUnknown ==
    rg_last.op = "get_agent" =>
        (rg_last.outcome = "ValueError" <=> ~rg_Registered(rg_last.name))

\* C29 as stated: after any sequence of calls, get_agent(name) returns an
\* instance of the class most recently registered under name and raises
\* ValueError exactly when name is not registered; a register_agent call
\* rejected with TypeError leaves the registry unchanged.
C29_GetReturnsLatestRegistered ==
    /\ rg_ValueErrorIffUnknown
    /\ rg_RejectedLeavesRegistry
    /\ rg_last.op = "get_agent" /\ rg_Registered(rg_last.name) =>
          /\ rg_last.outcome = "returned"
          /\ rg_last.instance.class = rg_Latest(rg_last.name)

\* C29 amended: get_agent(name) raises ValueError exactly when name is not
\* registered; otherwise it instantiates the class most recently registered
\* under name and returns the instance, unless that class cannot be
\* instantiated (the abstract AgentBackend), in which case the constructor's
\* TypeError leaves get_agent; a rejected register_agent call leaves the
\* registry unchanged.
C29_GetInstantiatesLatestRegistered ==
    /\ rg_ValueErrorIffUnknown
    /\ rg_RejectedLeavesRegistry
    /\ rg_last.op = "get_agent" /\ rg_Registered(rg_last.name) =>
          IF is_abstract(rg_Latest(rg_last.name))
          THEN rg_last.outcome = "TypeError"
          ELSE /\ rg_last.outcome = "returned"
               /\ rg_last.instance.class = rg_Latest(rg_last.name)

\* C29 witness: codex was registered again with another class, a call was
\* rejected, and get_agent then returned an instance of the newer class.
C29_Witness ==
    /\ rg_last.op = "get_agent" /\ rg_last.name = "codex"
    /\ rg_last.outcome = "returned"
    /\ rg_last.instance.class = "MockBackend"
    /\ rg_calls = 3 /\ Len(rg_accepted) = 4

\* C30: a Codex backend obtained from the registry with no arguments has
\* full_disk_read False and a timeout of 300 seconds.
C30_CodexDefaultsAreSafe ==
    rg_last.op = "get_agent" /\ rg_last.outcome = "returned"
            /\ rg_last.instance.class = "CodexBackend" =>
        /\ dict_get(rg_last.instance.attrs, "full_disk_read", None) = FALSE
        /\ dict_get(rg_last.instance.attrs, "timeout", None) = 300

\* ------------------------------------------------- CouncilMode claims (4)
co_OpinionsComplete == \A m \in Members : co_opinion_replies[m] /= NoResponse
co_RankingsComplete == \A m \in Members : co_ranking_replies[m] /= NoResponse
co_RankingStarted ==
    \/ \E m \in Members : co_ranking_replies[m] /= NoResponse
    \/ co_pc = "ranking" /\ \E m \in Members : co_task[m] \in {"inflight", "waiting", "woken"}
\* the stage run() is in: INIT, OPINIONS, RANKING, SYNTHESIS, DONE as 0..4
co_Stage(pc) ==
    CASE pc = "constructed" -> 0
      [] pc = "opinions" -> 1
      [] pc = "ranking" -> 2
      [] pc = "await_chairman" -> 3
      [] pc = "returned" -> 4
      [] OTHER -> 5
co_StageInOrder ==
    /\ co_pc = "constructed" =>
          ~co_RankingStarted /\ co_chairman_calls = 0
              /\ \A m \in Members : co_opinion_replies[m] = NoResponse
    /\ co_pc = "opinions" => ~co_RankingStarted /\ co_chairman_calls = 0
    /\ co_pc = "ranking" => co_OpinionsComplete /\ co_chairman_calls = 0
    /\ co_pc = "await_chairman" =>
          co_RankingsComplete /\ co_chairman_calls = 1
              /\ co_chairman_reply = NoResponse
    /\ co_pc = "returned" =>
          co_RankingsComplete /\ co_chairman_calls = 1
              /\ co_chairman_reply /= NoResponse
    /\ co_pc = "raised" => co_chairman_calls = 0
\* run() moves one stage forward at a time, or leaves by raising
co_StageStep ==
    co_pc' /= co_pc =>
        \/ co_Stage(co_pc') = co_Stage(co_pc) + 1 /\ co_pc' /= "raised"
        \/ co_pc' = "raised" /\ co_pc \in {"opinions", "ranking"}

\* C31: run() moves through INIT, OPINIONS, RANKING, SYNTHESIS, DONE in that
\* order; no ranking invocation starts before every opinion invocation has
\* completed; the chairman is invoked once, after every ranking invocation
\* has completed, and never more than once.
C31_StagesInOrder ==
    /\ [](/\ co_StageInOrder
          /\ co_RankingStarted => co_OpinionsComplete
          /\ co_chairman_calls <= 1
          /\ co_chairman_calls = 1 => co_RankingsComplete)
    /\ [][co_StageStep]_vars

\* C31 witness: a run of three members with max_concurrent 1 returned; the
\* last member's ranking invocation had to wait at the gate.
C31_Witness ==
    /\ co_pc = "returned" /\ Len(co_members) = 3 /\ co_max_concurrent = 1
    /\ co_chairman_calls = 1 /\ co_OpinionsComplete /\ co_RankingsComplete

\* ------------------------------------------------ DeliberationMode claims (2)
dl_InFlight == { i \in DOMAIN dl_calls : ~dl_calls[i].returned }
\* the response of the last producer invocation before invocation i
dl_LastProducerResult(i) ==
    dl_calls[Max({ j \in 1..(i - 1) : dl_calls[j].agent = "producer" })].result

\* C32: at most one invocation is in flight, and it is the last one made;
\* the first invocation is the producer's in round 1; every later
\* invocation is in a round >= 2, a reviewer invocation opens a new round and
\* a producer invocation follows the reviewer invocation of its round; the
\* prompt of an invocation carries the response of the invocation before it.
C32_InvocationsAreSequential ==
    /\ Cardinality(dl_InFlight) <= 1
    /\ \A i \in dl_InFlight : i = Len(dl_calls)
    /\ dl_calls /= << >> =>
          dl_calls[1].agent = "producer" /\ dl_calls[1].round = 1
    /\ \A i \in DOMAIN dl_calls : i > 1 =>
          LET call == dl_calls[i]
              prev == dl_calls[i - 1]
          IN  /\ prev.returned
              /\ call.round >= 2
              /\ call.agent = "reviewer" =>
                    /\ call.round = prev.round + 1
                    /\ call.response = dl_LastProducerResult(i).content
              /\ call.agent = "producer" =>
                    /\ prev.agent = "reviewer" /\ prev.round = call.round
                    /\ ~is_error(prev.result)
                    /\ call.feedback = prev.result.content

\* C32 witness: producer, a reviewer whose invocation failed, the reviewer of
\* the next round, and the producer answering that review.
C32_Witness ==
    /\ Len(dl_calls) >= 4
    /\ dl_calls[2].agent = "reviewer" /\ is_error(dl_calls[2].result)
    /\ dl_calls[3].agent = "reviewer" /\ dl_calls[3].round = 3
    /\ dl_calls[4].agent = "producer" /\ dl_calls[4].returned

\* C35: every record run() returns has status consensus, max_rounds or
\* error; consensus comes with an agreement level of at least the threshold,
\* max_rounds with no level or one below the threshold, error with no level
\* and an error text.
C35_StatusAgreesWithLevel ==
    dl_pc = "returned" =>
        /\ dl_result.status \in {"consensus", "max_rounds", "error"}
        /\ dl_result.status = "consensus" =>
              dl_result.agreement_level /= Null
                  /\ dl_result.agreement_level >= consensus_threshold
        /\ dl_result.status = "max_rounds" =>
              dl_result.agreement_level = Null
                  \/ dl_result.agreement_level < consensus_threshold
        /\ dl_result.status = "error" =>
              dl_result.agreement_level = Null /\ dl_result.error /= None

\* C35 witness: the rounds ran out after a review that carried a level below
\* the threshold.
C35_Witness ==
    /\ dl_pc = "returned" /\ dl_result.status = "max_rounds"
    /\ dl_result.agreement_level = 10

dl_IsPrefix(s, t) == Len(s) <= Len(t) /\ SubSeq(t, 1, Len(s)) = s
dl_HistoryWellFormed ==
    \A i \in DOMAIN dl_history :
        LET e == dl_history[i] IN
        /\ ~IsPlaceholder(e.content)
        /\ i = 1 => e.round = 1 /\ e.agent = "producer" /\ e.type = "initial"
        /\ i > 1 =>
              /\ e.round >= 2 /\ e.round >= dl_history[i - 1].round
              /\ \/ e.agent = "reviewer" /\ e.type = "review"
                        /\ e.round > dl_history[i - 1].round
                 \/ e.agent = "producer" /\ e.type = "response"
                        /\ dl_history[i - 1].type = "review"
                        /\ dl_history[i - 1].round = e.round

\* C36: the history of one run only grows at its end; its first entry is the
\* producer's initial turn in round 1, every later entry a review by the
\* reviewer or a response by the producer in a round >= 2, rounds never
\* decrease, a response follows the review of its round, and no error
\* response is recorded.
C36_HistoryIsAppendOnly ==
    /\ []dl_HistoryWellFormed
    /\ [][dl_IsPrefix(dl_history, dl_history')]_vars

\* C36 witness: initial turn, a review and a response in round 2, and a
\* review in round 4 after the reviewer failed in round 3.
C36_Witness ==
    /\ Len(dl_history) = 4
    /\ dl_history[3].type = "response" /\ dl_history[3].round = 2
    /\ dl_history[4].type = "review" /\ dl_history[4].round = 4

\* ------------------------------------------------- DebateMode claims (3)
db_OpeningsRecorded == db_pc \in {"await_rebuttal", "await_judge", "returned"}

\* C33: the two openings run concurrently: while pro's invocation is in
\* flight con's can be made, and either may return first; both are recorded
\* with round number 1, pro's first and con's second, whichever completed
\* first.
C33_OpeningsConcurrentAndOrdered ==
    /\ db_pc = "opening" /\ db_opening["pro"].state = "inflight"
            /\ db_opening["con"].state = "pending" =>
          ENABLED OpeningInvoke("con")
    /\ db_pc = "opening" /\ db_opening["pro"].state = "inflight"
            /\ db_opening["con"].state = "inflight" =>
          \A p \in Positions : \A resp \in DebaterResponses :
              ENABLED OpeningReturns(p, resp)
    /\ db_OpeningsRecorded =>
          /\ Len(db_arguments) >= 2
          /\ db_arguments[1] = db_opening["pro"].result
          /\ db_arguments[2] = db_opening["con"].result
          /\ db_arguments[1].position = "pro" /\ db_arguments[1].round_num = 1
          /\ db_arguments[2].position = "con" /\ db_arguments[2].round_num = 1

\* C33 witness: both openings were in flight together, con's completed
\* first, and they are recorded pro then con.
C33_Witness ==
    /\ db_OpeningsRecorded
    /\ db_opening["con"].completed = 1 /\ db_opening["pro"].completed = 2
    /\ db_arguments[1].position = "pro" /\ db_arguments[2].position = "con"

\* C34: run() never raises the ValueError of _get_last_argument: when a
\* rebuttal round asks for the last con argument, one is recorded, also
\* when the openings returned errors.
C34_LastArgumentIsFound ==
    /\ db_exception /= "ValueError"
    /\ db_OpeningsRecorded =>
          get_last_argument(db_arguments, "con") /= NoArgument
    /\ \A inv \in db_inflight :
          inv.kind = "rebuttal" => inv.opponent_arg /= NoArgument

\* C34 witness: both openings failed and pro's rebuttal of round 2 was asked
\* for with con's failed opening as the argument to rebut.
C34_Witness ==
    /\ db_pc = "await_rebuttal" /\ db_round_num = 2
    /\ db_arguments[1].argument = "[Error: timeout]"
    /\ db_arguments[2].argument = "[Error: timeout]"
    /\ \E inv \in db_inflight :
          inv.position = "pro" /\ inv.opponent_arg = db_arguments[2]

\* C39: the judgment of every result run() returns has winner "pro" or
\* "con", whatever the judge replied.
C39_WinnerIsProOrCon ==
    db_pc = "returned" => db_judgment.winner \in {"pro", "con"}

\* ------------------------------------------------- CouncilMode claims (5)
\* C37: each PeerRanking of the result carries as reviewer_id the name of the
\* member that produced it: the i-th ranking's reviewer_id is the i-th
\* member's name.
C37_RankingNamesItsReviewer ==
    co_pc \in {"await_chairman", "returned"} =>
        /\ Len(co_rankings) = Len(co_members)
        /\ \A m \in Members : co_rankings[m].reviewer_id = co_members[m]

\* something is left to happen: run() can start, a task of the current
\* gather can start, resume or have its invocation return, a gather can
\* deliver or raise, or the chairman's invocation can return
co_CanStep ==
    \/ co_pc = "constructed"
    \/ /\ co_pc \in {"opinions", "ranking", "raised"}
       /\ \E m \in Members : co_task[m] \in {"pending", "woken", "inflight"}
    \/ co_pc \in {"opinions", "ranking"} /\ gather_returns(co_task)
    \/ co_pc = "opinions" /\ \E m \in Members : co_task[m] = "failed"
    \/ co_pc = "await_chairman"

\* C38: when every invocation returns, run() reaches DONE with every member
\* invoked in Stage 1 and in Stage 2 and the chairman invoked once: as long
\* as run() has not returned so, something is left to happen; in particular
\* no task stays queued at the gate.
C38_RunReachesDone ==
    \/ co_CanStep
    \/ /\ co_pc = "returned"
       /\ co_OpinionsComplete /\ co_RankingsComplete
       /\ co_chairman_calls = 1
       /\ \A m \in Members : co_task[m] = "done"

\* ------------------------------------------------------------ driver claims
\* C40: given a non-empty task of at most 100000 characters and at least two
\* available agents, main constructs a CouncilMode from the selected agents
\* and reaches the call of run(): the construction raises nothing.
C40_DriverReachesRun ==
    /\ validate_input(mn_args.task) = None
    /\ Len(mn_available) >= 2
    => mn_pc /= "raised" /\ mn_exception = None

====
